---------------------------- MODULE Spec2Model ----------------------------
(***************************************************************************)
(* Constraint formulation and decoding layer of the course scheduler:      *)
(* the interval model (overlaps), the QUBO builder (build_qubo), the spin  *)
(* transform (qubo_to_ising), the energy evaluator (evaluate_qubo), the    *)
(* sample decoder (best_sampled_solution, interpret_selection), the slot   *)
(* rounding (calculate_duration_slots), the two integer-program runs       *)
(* (build_and_run_model, print_schedule), the Hamiltonian builder          *)
(* (ising_to_pennylane_hamiltonian) and the converter of the hybrid job    *)
(* (qubo_to_ising_sparse).                                                 *)
(*                                                                         *)
(* Conventions.                                                            *)
(*  - A Python str is a sequence of character codes, so that sorted() on   *)
(*    variable names and str.split() on times are computed, not assumed.   *)
(*  - A Python value that may be None is <<>> (None) or <<v>> (the value). *)
(*  - A Python dict is a function; dict.get(k, 0.0) + w is DictAdd.        *)
(*  - Penalties are integers.  qubo_to_ising divides by 2.0 and 4.0, which *)
(*    is exact in binary floating point, so h, J and constant are kept in  *)
(*    units of 1/IsingScale.                                               *)
(***************************************************************************)
EXTENDS Integers, Sequences, FiniteSets, TLC

(***************************************************************************)
(* Bounds of the model.                                                    *)
(***************************************************************************)
MaxCourses == 2
MaxSections == 2
MaxMeetings == 2
MaxRooms == 2
NumHours == 3
MaxDays == 2
MaxEnumeratedVars == 8

(***************************************************************************)
(* Python values.                                                          *)
(***************************************************************************)
None == <<>>
Some(v) == <<v>>
IsNone(o) == o = <<>>
Val(o) == o[1]

Range(s) == {s[i] : i \in 1..Len(s)}

\* chr(ord("0") + d)
Digit(d) == 48 + d

\* str(n) for n >= 0, as f"{idx}" formats it
RECURSIVE IntToStr(_)
IntToStr(n) == IF n < 10 THEN <<Digit(n)>> ELSE IntToStr(n \div 10) \o <<Digit(n % 10)>>

\* f"{h:02d}:{m:02d}", the "%H:%M" layout the catalog stores
TimeStr(hh, mm) == <<Digit(hh \div 10), Digit(hh % 10), 58, Digit(mm \div 10), Digit(mm % 10)>>

\* a < b as Python compares two str: by code point, a proper prefix first
RECURSIVE StrLess(_, _)
StrLess(a, b) ==
    IF b = <<>> THEN FALSE
    ELSE IF a = <<>> THEN TRUE
    ELSE IF Head(a) < Head(b) THEN TRUE
    ELSE IF Head(a) > Head(b) THEN FALSE
    ELSE StrLess(Tail(a), Tail(b))

\* time_str.split(":")
RECURSIVE SplitColon(_)
SplitColon(s) ==
    IF \A i \in 1..Len(s) : s[i] # 58 THEN <<s>>
    ELSE LET k == CHOOSE i \in 1..Len(s) : s[i] = 58 /\ \A j \in 1..(i - 1) : s[j] # 58
         IN  <<SubSeq(s, 1, k - 1)>> \o SplitColon(SubSeq(s, k + 1, Len(s)))

\* int(s) accepts a non-empty run of decimal digits
IsDecimal(s) == s # <<>> /\ \A i \in 1..Len(s) : s[i] \in 48..57

RECURSIVE ParseInt(_)
ParseInt(s) == IF s = <<>> THEN 0 ELSE 10 * ParseInt(SubSeq(s, 1, Len(s) - 1)) + (s[Len(s)] - 48)

\* The result of a call: a returned value, or the exception it raised.
Returned(v) == [exc |-> "none", val |-> <<v>>]
Raised(e) == [exc |-> e, val |-> <<>>]
Ok(r) == r.exc = "none"

(***************************************************************************)
(* time_to_minutes and overlaps.                                           *)
(***************************************************************************)
\* time_str is the value of section["begin"] or section["end"]: None.split
\* is an AttributeError, a string that does not unpack into two ints a
\* ValueError.
time_to_minutes(time_str) ==
    IF IsNone(time_str) THEN Raised("AttributeError")
    ELSE LET parts == SplitColon(Val(time_str))
         IN  IF Len(parts) # 2 \/ ~IsDecimal(parts[1]) \/ ~IsDecimal(parts[2])
             THEN Raised("ValueError")
             ELSE Returned(ParseInt(parts[1]) * 60 + ParseInt(parts[2]))

\* not (end_a <= start_b or end_b <= start_a), on the four minute values
IntervalsIntersectClosed(start_a, end_a, start_b, end_b) ==
    ~(end_a < start_b \/ end_b < start_a)
IntervalsIntersectOneSided(start_a, end_a, start_b, end_b) ==
    ~(end_a < start_b \/ end_b <= start_a)
IntervalsIntersect(start_a, end_a, start_b, end_b) ==
    ~(end_a <= start_b \/ end_b <= start_a)

FirstRaised(rs) ==
    LET k == CHOOSE i \in 1..Len(rs) : ~Ok(rs[i]) /\ \A j \in 1..(i - 1) : Ok(rs[j])
    IN  Raised(rs[k].exc)

overlaps(section_a, section_b) ==
    IF IsNone(section_a.days) \/ IsNone(section_b.days) THEN Raised("TypeError")
    ELSE LET common_days == Range(Val(section_a.days)) \cap Range(Val(section_b.days))
             ts == <<time_to_minutes(section_a.begin), time_to_minutes(section_a.end),
                     time_to_minutes(section_b.begin), time_to_minutes(section_b.end)>>
         IN  IF common_days = {} THEN Returned(FALSE)
             ELSE IF \E i \in 1..4 : ~Ok(ts[i]) THEN FirstRaised(ts)
             ELSE Returned(\E d \in common_days :
                      IntervalsIntersect(Val(ts[1].val), Val(ts[2].val),
                                         Val(ts[3].val), Val(ts[4].val)))

(***************************************************************************)
(* Catalog values the interval model is exercised on.                      *)
(***************************************************************************)
DayLists == {None, Some(<<>>), Some(<<"M">>), Some(<<"T">>), Some(<<"M", "T">>)}

TimeWindows ==
    {<<None, None>>,
     <<Some(TimeStr(9, 0)), Some(TimeStr(10, 0))>>,
     <<Some(TimeStr(9, 30)), Some(TimeStr(10, 30))>>,
     <<Some(TimeStr(10, 0)), Some(TimeStr(11, 20))>>,
     <<Some(TimeStr(9, 0)), Some(TimeStr(11, 20))>>}

Meetings ==
    {[section_id |-> <<65>>, days |-> d, begin |-> w[1], end |-> w[2]] :
        d \in DayLists, w \in TimeWindows}

(***************************************************************************)
(* Dictionaries and folds used by the builders.                            *)
(***************************************************************************)
\* d[k] = d.get(k, 0.0) + w
DictAdd(d, k, w) == IF k \in DOMAIN d THEN [d EXCEPT ![k] = @ + w] ELSE d @@ (k :> w)

RECURSIVE SumFn(_)
SumFn(f) ==
    IF DOMAIN f = {} THEN 0
    ELSE LET k == CHOOSE k \in DOMAIN f : TRUE
         IN  f[k] + SumFn([j \in DOMAIN f \ {k} |-> f[j]])

\* itertools.combinations(range(1, n + 1), 2), in the order it yields them
RECURSIVE CombosFrom(_, _, _)
CombosFrom(i, j, n) ==
    IF i >= n THEN <<>>
    ELSE IF j > n THEN CombosFrom(i + 1, i + 2, n)
    ELSE <<<<i, j>>>> \o CombosFrom(i, j + 1, n)

Combinations2(n) == CombosFrom(1, 2, n)

(***************************************************************************)
(* build_qubo.                                                             *)
(***************************************************************************)
\* f"{course['course']}|{section['section_id']}|{section_idx}"
VarName(course, section, section_idx) ==
    course.course \o <<124>> \o section.section_id \o <<124>> \o IntToStr(section_idx)

\* tuple(sorted((var_a, var_b)))
UnsortedKey(var_a, var_b) == <<var_a, var_b>>
CanonicalKey(var_a, var_b) == IF StrLess(var_b, var_a) THEN <<var_b, var_a>> ELSE <<var_a, var_b>>

\* vars_for_course, the names of one course in section order
VarsForCourse(course) ==
    [i \in 1..Len(course.sections) |-> VarName(course, course.sections[i], i - 1)]

\* all_sections, the (var, section) pairs of the whole list in insertion order
RECURSIVE AllSections(_)
AllSections(cs) ==
    IF cs = <<>> THEN <<>>
    ELSE [i \in 1..Len(Head(cs).sections) |->
             [var |-> VarsForCourse(Head(cs))[i], sec |-> Head(cs).sections[i]]]
         \o AllSections(Tail(cs))

\* index_to_var[len(index_to_var)] = var_name; linear.setdefault(var_name, 0.0)
IndexToVar(cs) == [i \in 0..(Len(AllSections(cs)) - 1) |-> AllSections(cs)[i + 1].var]
LinearZero(cs) == [v \in {AllSections(cs)[i].var : i \in 1..Len(AllSections(cs))} |-> 0]

\* linear[var] += -1.0 * course_penalty
DoubledLinearTerm(course_penalty) == -2 * course_penalty
CourseLinearTerm(course_penalty) == -1 * course_penalty

\* quadratic[key] += 2.0 * course_penalty
SingleCrossTerm(course_penalty) == course_penalty
TripleCrossTerm(course_penalty) == 3 * course_penalty
CourseCrossTerm(course_penalty) == 2 * course_penalty

\* offset += course_penalty
NoOffsetTerm(course_penalty) == 0
CourseOffsetTerm(course_penalty) == course_penalty

RECURSIVE AddLinear(_, _, _)
AddLinear(lin, vs, w) ==
    IF vs = <<>> THEN lin ELSE AddLinear([lin EXCEPT ![Head(vs)] = @ + w], Tail(vs), w)

\* for var_a, var_b in <pairs of names>: quadratic[key] += w
RECURSIVE AddPairs(_, _, _, _)
AddPairs(quad, names, pairs, w) ==
    IF pairs = <<>> THEN quad
    ELSE AddPairs(DictAdd(quad, CanonicalKey(names[Head(pairs)[1]], names[Head(pairs)[2]]), w),
                  names, Tail(pairs), w)

\* the "Course selection constraints" loop over the courses
RECURSIVE CourseSelection(_, _, _)
CourseSelection(acc, cs, course_penalty) ==
    IF cs = <<>> THEN acc
    ELSE LET vs == VarsForCourse(Head(cs))
         IN  CourseSelection(
                 [linear |-> AddLinear(acc.linear, vs, CourseLinearTerm(course_penalty)),
                  offset |-> acc.offset + CourseOffsetTerm(course_penalty),
                  quadratic |-> AddPairs(acc.quadratic, vs, Combinations2(Len(vs)),
                                         CourseCrossTerm(course_penalty))],
                 Tail(cs), course_penalty)

\* quadratic[key] += conflict_penalty
NoConflictTerm(conflict_penalty) == 0
ConflictTerm(conflict_penalty) == conflict_penalty

\* the pairs of all_sections the conflict loop visits, each with its overlaps() result
ConflictScan(cs) ==
    LET all == AllSections(cs)
        pairs == Combinations2(Len(all))
    IN  [k \in 1..Len(pairs) |->
            [pair |-> pairs[k], res |-> overlaps(all[pairs[k][1]].sec, all[pairs[k][2]].sec)]]

build_qubo(cs, course_penalty, conflict_penalty) ==
    LET all == AllSections(cs)
        names == [i \in 1..Len(all) |-> all[i].var]
        sel == CourseSelection([linear |-> LinearZero(cs), offset |-> 0, quadratic |-> <<>>],
                               cs, course_penalty)
        scan == ConflictScan(cs)
        hits == SelectSeq(scan, LAMBDA e : Ok(e.res) /\ Val(e.res.val))
    IN  IF \E k \in 1..Len(scan) : ~Ok(scan[k].res)
        THEN FirstRaised([k \in 1..Len(scan) |-> scan[k].res])
        ELSE Returned([linear |-> sel.linear,
                       quadratic |-> AddPairs(sel.quadratic, names,
                                              [k \in 1..Len(hits) |-> hits[k].pair],
                                              ConflictTerm(conflict_penalty)),
                       offset |-> sel.offset,
                       index_to_var |-> IndexToVar(cs)])

(***************************************************************************)
(* qubo_to_ising.  h, J and constant hold IsingScale times the Python      *)
(* values.                                                                 *)
(***************************************************************************)
IsingScale == 4

\* h[var] += -coeff / 2.0
FieldWrongSign(coeff) == (coeff * IsingScale) \div 2
LinearToField(coeff) == -((coeff * IsingScale) \div 2)

RECURSIVE IsingLinear(_, _, _)
IsingLinear(acc, linear, todo) ==
    IF todo = {} THEN acc
    ELSE LET var == CHOOSE v \in todo : TRUE
             coeff == linear[var]
         IN  IsingLinear([h |-> [acc.h EXCEPT ![var] = @ + LinearToField(coeff)],
                          J |-> acc.J,
                          constant |-> acc.constant + (coeff * IsingScale) \div 2],
                         linear, todo \ {var})

RECURSIVE IsingQuadratic(_, _, _)
IsingQuadratic(acc, quadratic, todo) ==
    IF todo = {} THEN acc
    ELSE LET key == CHOOSE k \in todo : TRUE
             coeff == quadratic[key]
             q == (coeff * IsingScale) \div 4
             h1 == [acc.h EXCEPT ![key[1]] = @ - q]
         IN  IsingQuadratic([h |-> [h1 EXCEPT ![key[2]] = @ - q],
                             J |-> DictAdd(acc.J, CanonicalKey(key[1], key[2]), q),
                             constant |-> acc.constant + q],
                            quadratic, todo \ {key})

qubo_to_ising(linear, quadratic, offset) ==
    IsingQuadratic(
        IsingLinear([h |-> [v \in DOMAIN linear |-> 0], J |-> <<>>,
                     constant |-> offset * IsingScale],
                    linear, DOMAIN linear),
        quadratic, DOMAIN quadratic)

(***************************************************************************)
(* evaluate_qubo.                                                          *)
(***************************************************************************)
\* {var: idx for idx, var in index_to_var.items()}: a later index replaces
\* an earlier one under the same name
VarToIndex(index_to_var) ==
    [v \in {index_to_var[i] : i \in DOMAIN index_to_var} |->
        CHOOSE i \in DOMAIN index_to_var :
            index_to_var[i] = v /\ \A j \in DOMAIN index_to_var : index_to_var[j] = v => j <= i]

evaluate_qubo(bitstring, linear, quadratic, offset, index_to_var) ==
    LET var_to_index == VarToIndex(index_to_var)
    IN  IF \E idx \in 0..(Len(bitstring) - 1) : idx \notin DOMAIN index_to_var
        THEN Raised("KeyError")
        ELSE IF \E key \in DOMAIN quadratic :
                    \/ var_to_index[key[1]] >= Len(bitstring)
                    \/ var_to_index[key[2]] >= Len(bitstring)
        THEN Raised("IndexError")
        ELSE Returned(
                 offset
                 + SumFn([idx \in 0..(Len(bitstring) - 1) |->
                             (IF index_to_var[idx] \in DOMAIN linear
                              THEN linear[index_to_var[idx]] ELSE 0) * bitstring[idx + 1]])
                 + SumFn([key \in DOMAIN quadratic |->
                             quadratic[key] * bitstring[var_to_index[key[1]] + 1]
                                            * bitstring[var_to_index[key[2]] + 1]]))

(***************************************************************************)
(* ising_to_pennylane_hamiltonian.  The Hamiltonian is the set of its      *)
(* terms, each a coefficient, an operator and the wires it acts on; the    *)
(* order of the terms is not kept.  A coefficient is a multiple of         *)
(* 1/IsingScale of an integer, so abs(coeff) > 1e-9 is coeff # 0.          *)
(***************************************************************************)
KeepsTerm(coeff) == coeff # 0

ising_to_pennylane_hamiltonian(hh, JJ, const, itv) ==
    LET var_to_index == VarToIndex(itv)
    IN  {[coeff |-> hh[var], op |-> "Z", wires |-> {var_to_index[var]}] :
            var \in {v \in DOMAIN hh : KeepsTerm(hh[v])}}
        \cup
        {[coeff |-> JJ[key], op |-> "ZZ",
          wires |-> {var_to_index[key[1]], var_to_index[key[2]]}] :
            key \in {k \in DOMAIN JJ : KeepsTerm(JJ[k])}}
        \cup
        (IF KeepsTerm(const) THEN {[coeff |-> const, op |-> "I", wires |-> {0}]} ELSE {})

\* cost_h.wires
HamiltonianWires(ch) == UNION {term.wires : term \in ch}

(***************************************************************************)
(* Catalog values the QUBO path is exercised on.                           *)
(***************************************************************************)
\* section ids "A" and "B"; the last entry is a TBA row as enrich() emits it
SectionPalette ==
    {[section_id |-> <<65>>, days |-> Some(<<"M">>),
      begin |-> Some(TimeStr(9, 0)), end |-> Some(TimeStr(10, 0))],
     [section_id |-> <<66>>, days |-> Some(<<"M", "T">>),
      begin |-> Some(TimeStr(9, 30)), end |-> Some(TimeStr(10, 30))],
     [section_id |-> <<65>>, days |-> Some(<<"T">>),
      begin |-> Some(TimeStr(9, 0)), end |-> Some(TimeStr(10, 0))],
     [section_id |-> <<66>>, days |-> Some(<<>>), begin |-> None, end |-> None],
     [section_id |-> <<65>>, days |-> None, begin |-> None, end |-> None]}

\* course codes "1" and "2"
CourseCodes == {<<49>>, <<50>>}

SeqsUpTo(S, n) == UNION {[1..k -> S] : k \in 0..n}

Courses == {[course |-> c, sections |-> ss] : c \in CourseCodes, ss \in SeqsUpTo(SectionPalette, MaxSections)}

\* <<course_penalty, conflict_penalty>>; 5.0 and 5.0 are the defaults
PenaltyPairs == {<<5, 5>>, <<1, 2>>, <<3, 1>>}

VARIABLES ov_pc, section_a, section_b, ov_result,
          pc, courses, course_penalty, conflict_penalty,
          linear, quadratic, offset, index_to_var, h, J, constant, cost_h,
          bits, energy,
          samples, evaluate_calls, best_bits, best_energy, selection, printed,
          ilp_pc, variant, meetings, rooms, timeslots,
          meeting_enrollment, room_capacity, meeting_duration,
          x, model_vars, c1,
          all_instructors, meeting_instructors,
          warnings, c2, c4, objective, status, sol, optimize_calls, reports, caught,
          dur_pc, begin_str, end_str, dur_result,
          sp_pc, df, sparse_h, sparse_J

ovVars == <<ov_pc, section_a, section_b, ov_result>>

decodeVars == <<samples, evaluate_calls, best_bits, best_energy, selection, printed>>

quboVars == <<pc, courses, course_penalty, conflict_penalty,
              linear, quadratic, offset, index_to_var, h, J, constant, cost_h, bits, energy,
              decodeVars>>

ilpInputs == <<variant, meetings, rooms, timeslots,
               meeting_enrollment, room_capacity, meeting_duration,
               all_instructors, meeting_instructors>>

\* what the steps after the C1 loop write
solveVars == <<c2, c4, objective, status, sol, optimize_calls, reports, caught>>

ilpVars == <<ilp_pc, ilpInputs, x, model_vars, c1, warnings, solveVars>>

durVars == <<dur_pc, begin_str, end_str, dur_result>>

sparseVars == <<sp_pc, df, sparse_h, sparse_J>>

vars == <<ovVars, quboVars, ilpVars, durVars, sparseVars>>

(***************************************************************************)
(* build_and_run_model: variable generation and the C1 constraints.  The   *)
(* two scripts differ in the day list and in the room order of the         *)
(* generation loop; variant says which script runs.  A timeslot            *)
(* "Mon_08:00" is <<"Mon", 8>>; x is the key set of the dict x, model_vars *)
(* the m.addVar calls in order, c1 the m.addConstr calls of the C1 loop.   *)
(***************************************************************************)
RECURSIVE Concat(_)
Concat(ss) == IF ss = <<>> THEN <<>> ELSE Head(ss) \o Concat(Tail(ss))

\* days = ["Mon", "Tue", "Wed", "Thu", "Fri"], or ["Mon"] in the mini script
DaysOf(v) == IF v = "mini" THEN <<"Mon">> ELSE <<"Mon", "Tue", "Wed", "Thu", "Fri">>

\* build_time_slots(range(8, 8 + NumHours))
build_time_slots(v) ==
    Concat([d \in 1..Len(DaysOf(v)) |-> [i \in 1..NumHours |-> <<DaysOf(v)[d], 7 + i>>]])

\* slots_per_day[day] = [t for t in timeslots if t.startswith(day)]
slots_per_day(day) == SelectSeq(timeslots, LAMBDA t : t[1] = day)

\* sorted(rooms, key=lambda r: room_capacity[r]), a stable sort
RECURSIVE InsertByCapacity(_, _)
InsertByCapacity(sorted, room) ==
    IF sorted = <<>> THEN <<room>>
    ELSE IF room_capacity[room] < room_capacity[sorted[Len(sorted)]]
         THEN InsertByCapacity(SubSeq(sorted, 1, Len(sorted) - 1), room) \o <<sorted[Len(sorted)]>>
         ELSE sorted \o <<room>>

RECURSIVE SortedRoomsOf(_)
SortedRoomsOf(rs) ==
    IF rs = <<>> THEN <<>>
    ELSE InsertByCapacity(SortedRoomsOf(SubSeq(rs, 1, Len(rs) - 1)), rs[Len(rs)])

sorted_rooms == SortedRoomsOf(rooms)

\* the room order of the generation loop
RoomLoop == IF variant = "mini" THEN sorted_rooms ELSE rooms

\* the pre-filter: "if room_capacity[room] < meeting_enrollment[meeting]: continue"
SkipsRoomReversed(meeting, room) == room_capacity[room] > meeting_enrollment[meeting]
SkipsRoom(meeting, room) == room_capacity[room] < meeting_enrollment[meeting]

\* for i in range(len(day_slots) - duration + 1): addVar x[meeting, day_slots[i], room]
StartKeysEverySlot(meeting, room, day) ==
    LET day_slots == slots_per_day(day)
    IN  [i \in 1..Len(day_slots) |-> <<meeting, day_slots[i], room>>]
StartKeys(meeting, room, day) ==
    LET day_slots == slots_per_day(day)
        valid_start_indices == Len(day_slots) - meeting_duration[meeting] + 1
    IN  [i \in 1..valid_start_indices |-> <<meeting, day_slots[i], room>>]

RoomKeys(meeting, room) ==
    IF SkipsRoom(meeting, room) THEN <<>>
    ELSE Concat([d \in 1..Len(DaysOf(variant)) |-> StartKeys(meeting, room, DaysOf(variant)[d])])

MeetingKeys(meeting) == Concat([r \in 1..Len(RoomLoop) |-> RoomKeys(meeting, RoomLoop[r])])

\* every m.addVar of the generation loop, in order
GeneratedKeys == Concat([k \in 1..Len(meetings) |-> MeetingKeys(meetings[k])])

\* the timeslots the C1 comprehension ranges over
C1SlotsMondayOnly == slots_per_day("Mon")
C1Slots == timeslots

\* [x[meeting, t, r] for t in timeslots for r in rooms if (meeting, t, r) in x]
relevant_vars(meeting) ==
    Concat([i \in 1..Len(C1Slots) |->
               SelectSeq([r \in 1..Len(rooms) |-> <<meeting, C1Slots[i], rooms[r]>>],
                         LAMBDA key : key \in x)])

\* the C1 loop: one constraint per meeting that has a variable
C1Constraints ==
    LET rows == [k \in 1..Len(meetings) |->
                    IF relevant_vars(meetings[k]) = <<>> THEN <<>>
                    ELSE <<[name |-> meetings[k], lhs |-> relevant_vars(meetings[k]),
                            sense |-> "==", rhs |-> 1]>>]
    IN  Concat(rows)

\* the "Warning: Meeting ... has no valid placement options!" lines of the C1 loop
NoWarnings == <<>>
C1Warnings == SelectSeq(meetings, LAMBDA meeting : relevant_vars(meeting) = <<>>)

(***************************************************************************)
(* Inputs of build_and_run_model: meetings and rooms are lists without     *)
(* repetition, as load_and_map_features builds them.                       *)
(***************************************************************************)
MeetingIds == 1..MaxMeetings
RoomIds == 1..MaxRooms

InjectiveSeqs(S) ==
    {q \in UNION {[1..k -> S] : k \in 1..Cardinality(S)} :
        \A i, j \in 1..Len(q) : i # j => q[i] # q[j]}

Enrollments == {28, 45, 60}
Capacities == {30, 50}
Durations == {1, 2, 4}

(***************************************************************************)
(* The interval model on its own: one call of overlaps.                    *)
(***************************************************************************)
OvIdle ==
    /\ ov_pc = "idle"
    /\ section_a = CHOOSE m \in Meetings : TRUE
    /\ section_b = section_a
    /\ ov_result = Raised("unset")

\* nothing sampled, picked, decoded or printed yet
DecodeIdle ==
    /\ samples = <<>>
    /\ evaluate_calls = <<>>
    /\ best_bits = <<>>
    /\ best_energy = 0
    /\ selection = <<>>
    /\ printed = None

QuboIdle ==
    /\ pc = "idle"
    /\ courses = <<>>
    /\ course_penalty = 0
    /\ conflict_penalty = 0
    /\ linear = <<>>
    /\ quadratic = <<>>
    /\ offset = 0
    /\ index_to_var = <<>>
    /\ h = <<>>
    /\ J = <<>>
    /\ constant = 0
    /\ cost_h = {}
    /\ bits = <<>>
    /\ energy = 0
    /\ DecodeIdle

\* a model that no constraint beyond C1, objective or solve has touched
SolveIdle ==
    /\ c2 = <<>>
    /\ c4 = <<>>
    /\ objective = <<>>
    /\ status = "LOADED"
    /\ sol = {}
    /\ optimize_calls = 0
    /\ reports = <<>>
    /\ caught = "none"

IlpIdle ==
    /\ ilp_pc = "idle"
    /\ variant = "classical"
    /\ meetings = <<>>
    /\ rooms = <<>>
    /\ timeslots = <<>>
    /\ meeting_enrollment = <<>>
    /\ room_capacity = <<>>
    /\ meeting_duration = <<>>
    /\ all_instructors = <<>>
    /\ meeting_instructors = <<>>
    /\ x = {}
    /\ model_vars = <<>>
    /\ c1 = <<>>
    /\ warnings = <<>>
    /\ SolveIdle

DurIdle ==
    /\ dur_pc = "idle"
    /\ begin_str = None
    /\ end_str = None
    /\ dur_result = 0

SparseIdle ==
    /\ sp_pc = "idle"
    /\ df = <<>>
    /\ sparse_h = <<>>
    /\ sparse_J = <<>>

OvInit ==
    /\ ov_pc = "ready"
    /\ section_a \in Meetings
    /\ section_b \in Meetings
    /\ ov_result = Raised("unset")
    /\ QuboIdle
    /\ IlpIdle
    /\ DurIdle
    /\ SparseIdle

CallOverlaps ==
    /\ ov_pc = "ready"
    /\ ov_pc' = "called"
    /\ ov_result' = overlaps(section_a, section_b)
    /\ UNCHANGED <<section_a, section_b>>
    /\ UNCHANGED <<quboVars, ilpVars, durVars, sparseVars>>

OvNext == CallOverlaps

SpecOverlaps == OvInit /\ [][OvNext]_vars

(***************************************************************************)
(* The QUBO path of main(): build_qubo, qubo_to_ising, evaluate_qubo.      *)
(***************************************************************************)
QuboInit ==
    /\ pc = "start"
    /\ courses \in SeqsUpTo(Courses, MaxCourses)
    /\ \E p \in PenaltyPairs : course_penalty = p[1] /\ conflict_penalty = p[2]
    /\ linear = <<>>
    /\ quadratic = <<>>
    /\ offset = 0
    /\ index_to_var = <<>>
    /\ h = <<>>
    /\ J = <<>>
    /\ constant = 0
    /\ cost_h = {}
    /\ bits = <<>>
    /\ energy = 0
    /\ DecodeIdle
    /\ OvIdle
    /\ IlpIdle
    /\ DurIdle
    /\ SparseIdle

\* linear, quadratic, offset, index_to_var = build_qubo(courses)
BuildQubo ==
    /\ pc = "start"
    /\ LET r == build_qubo(courses, course_penalty, conflict_penalty)
       IN  IF Ok(r)
           THEN /\ pc' = "built"
                /\ linear' = Val(r.val).linear
                /\ quadratic' = Val(r.val).quadratic
                /\ offset' = Val(r.val).offset
                /\ index_to_var' = Val(r.val).index_to_var
           ELSE /\ pc' = r.exc
                /\ UNCHANGED <<linear, quadratic, offset, index_to_var>>
    /\ UNCHANGED <<courses, course_penalty, conflict_penalty, h, J, constant, cost_h, bits, energy>>
    /\ UNCHANGED <<decodeVars, ovVars, ilpVars, durVars, sparseVars>>

\* h, J, constant = qubo_to_ising(linear, quadratic, offset)
QuboToIsing ==
    /\ pc = "built"
    /\ pc' = "ising"
    /\ LET r == qubo_to_ising(linear, quadratic, offset)
       IN  /\ h' = r.h
           /\ J' = r.J
           /\ constant' = r.constant
    /\ UNCHANGED <<courses, course_penalty, conflict_penalty,
                   linear, quadratic, offset, index_to_var, cost_h, bits, energy>>
    /\ UNCHANGED <<decodeVars, ovVars, ilpVars, durVars, sparseVars>>

\* evaluate_qubo(key, linear, quadratic, offset, index_to_var) on one sampled key
EvaluateQubo ==
    /\ pc = "ising"
    /\ \E b \in [1..Cardinality(DOMAIN index_to_var) -> {0, 1}] :
          /\ bits' = b
          /\ energy' = Val(evaluate_qubo(b, linear, quadratic, offset, index_to_var).val)
    /\ pc' = "evaluated"
    /\ UNCHANGED <<courses, course_penalty, conflict_penalty,
                   linear, quadratic, offset, index_to_var, h, J, constant, cost_h>>
    /\ UNCHANGED <<decodeVars, ovVars, ilpVars, durVars, sparseVars>>

\* cost_h = ising_to_pennylane_hamiltonian(h, J, constant, index_to_var)
IsingToPennylaneHamiltonian ==
    /\ pc = "ising"
    /\ pc' = "hamiltonian"
    /\ cost_h' = ising_to_pennylane_hamiltonian(h, J, constant, index_to_var)
    /\ UNCHANGED <<courses, course_penalty, conflict_penalty,
                   linear, quadratic, offset, index_to_var, h, J, constant, bits, energy>>
    /\ UNCHANGED <<decodeVars, ovVars, ilpVars, durVars, sparseVars>>

QuboNext == BuildQubo \/ QuboToIsing \/ IsingToPennylaneHamiltonian \/ EvaluateQubo

SpecQubo == QuboInit /\ [][QuboNext]_vars

(***************************************************************************)
(* The decode path of main(): best_sampled_solution on the sampled         *)
(* bitstrings, interpret_selection on the winner, and the printed report.  *)
(***************************************************************************)
MaxSamples == 3
MaxDecodeSections == 3

\* the loop of best_sampled_solution: energy_by_sample as its items in
\* insertion order, and the keys evaluate_qubo was called on
RECURSIVE EnergyBySample(_, _, _, _, _, _)
EnergyBySample(acc, todo, lin, quad, off, itv) ==
    IF todo = <<>> THEN acc
    ELSE LET key == Head(todo)
             r == evaluate_qubo(key, lin, quad, off, itv)
         IN  IF \E i \in 1..Len(acc.items) : acc.items[i].key = key
             THEN EnergyBySample(acc, Tail(todo), lin, quad, off, itv)
             ELSE IF ~Ok(r)
             THEN [items |-> acc.items, calls |-> Append(acc.calls, key), exc |-> r.exc]
             ELSE EnergyBySample(
                      [items |-> Append(acc.items, [key |-> key, energy |-> Val(r.val)]),
                       calls |-> Append(acc.calls, key),
                       exc |-> "none"],
                      Tail(todo), lin, quad, off, itv)

energy_by_sample(ss, lin, quad, off, itv) ==
    EnergyBySample([items |-> <<>>, calls |-> <<>>, exc |-> "none"], ss, lin, quad, off, itv)

\* min(energy_by_sample.items(), key=lambda item: item[1]): the first item,
\* in insertion order, of least energy
MinItemLast(items) ==
    items[CHOOSE i \in 1..Len(items) :
              /\ \A j \in 1..Len(items) : items[i].energy <= items[j].energy
              /\ \A j \in (i + 1)..Len(items) : items[j].energy > items[i].energy]
MinItem(items) ==
    items[CHOOSE i \in 1..Len(items) :
              /\ \A j \in 1..Len(items) : items[i].energy <= items[j].energy
              /\ \A j \in 1..(i - 1) : items[j].energy > items[i].energy]

best_sampled_solution(ss, lin, quad, off, itv) ==
    LET ebs == energy_by_sample(ss, lin, quad, off, itv)
    IN  IF ebs.exc # "none" THEN Raised(ebs.exc)
        ELSE IF ebs.items = <<>> THEN Raised("ValueError")
        ELSE Returned([best_bits |-> MinItem(ebs.items).key,
                       best_energy |-> MinItem(ebs.items).energy])

\* name.split("|")
RECURSIVE SplitBar(_)
SplitBar(s) ==
    IF \A i \in 1..Len(s) : s[i] # 124 THEN <<s>>
    ELSE LET k == CHOOSE i \in 1..Len(s) : s[i] = 124 /\ \A j \in 1..(i - 1) : s[j] # 124
         IN  <<SubSeq(s, 1, k - 1)>> \o SplitBar(SubSeq(s, k + 1, Len(s)))

\* chosen[course_code] = section_id
DictSetDefault(d, k, v) == IF k \in DOMAIN d THEN d ELSE d @@ (k :> v)
DictSet(d, k, v) == [j \in DOMAIN d \cup {k} |-> IF j = k THEN v ELSE d[j]]

\* the loop of interpret_selection from index idx on
RECURSIVE InterpretFrom(_, _, _, _)
InterpretFrom(chosen, idx, bs, itv) ==
    IF idx >= Len(bs) THEN Returned(chosen)
    ELSE IF bs[idx + 1] = 0 THEN InterpretFrom(chosen, idx + 1, bs, itv)
    ELSE IF idx \notin DOMAIN itv THEN Raised("KeyError")
    ELSE LET parts == SplitBar(itv[idx])
         IN  IF Len(parts) # 3 THEN Raised("ValueError")
             ELSE InterpretFrom(DictSet(chosen, parts[1], parts[2]), idx + 1, bs, itv)

interpret_selection(bs, itv) == InterpretFrom(<<>>, 0, bs, itv)

\* sections "A1", "A2", "B1" (all Mon 9:00-10:00), "A3" (Tue) and "A4" (Mon
\* 10:00-11:00, touching "A1")
DecodeSection(id, day, hh) ==
    [section_id |-> id, days |-> Some(<<day>>),
     begin |-> Some(TimeStr(hh, 0)), end |-> Some(TimeStr(hh + 1, 0))]

SecA1 == DecodeSection(<<65, 49>>, "M", 9)
SecA2 == DecodeSection(<<65, 50>>, "M", 9)
SecB1 == DecodeSection(<<66, 49>>, "M", 9)
SecA3 == DecodeSection(<<65, 51>>, "T", 9)
SecA4 == DecodeSection(<<65, 52>>, "M", 10)

SeqsFromTo(S, lo, hi) == UNION {[1..k -> S] : k \in lo..hi}

\* one course "A" of up to MaxDecodeSections sections, or a course "A" of
\* one or two sections followed by a course "B" of at most one
DecodeCourseLists ==
    {<<[course |-> <<65>>, sections |-> ss]>> :
        ss \in SeqsFromTo({SecA1, SecA3, SecA4}, 1, MaxDecodeSections)}
    \cup
    {<<[course |-> <<65>>, sections |-> sa], [course |-> <<66>>, sections |-> sb]>> :
        sa \in SeqsFromTo({SecA1, SecA2, SecA3}, 1, 2), sb \in SeqsFromTo({SecB1}, 0, 1)}

\* 5.0 and 5.0 are the defaults main() builds with
DecodePenalties == {<<5, 5>>, <<1, 2>>}

DecodeInit ==
    /\ pc = "start"
    /\ courses \in DecodeCourseLists
    /\ \E p \in DecodePenalties : course_penalty = p[1] /\ conflict_penalty = p[2]
    /\ linear = <<>>
    /\ quadratic = <<>>
    /\ offset = 0
    /\ index_to_var = <<>>
    /\ h = <<>>
    /\ J = <<>>
    /\ constant = 0
    /\ cost_h = {}
    /\ bits = <<>>
    /\ energy = 0
    /\ DecodeIdle
    /\ OvIdle
    /\ IlpIdle
    /\ DurIdle
    /\ SparseIdle

\* samples = sample_bitstrings(...);
\* bits, best_energy = best_sampled_solution(samples, linear, quadratic, offset, index_to_var)
BestSampledSolution ==
    /\ pc = "hamiltonian"
    /\ \E ss \in SeqsFromTo([1..Cardinality(HamiltonianWires(cost_h)) -> {0, 1}], 1, MaxSamples) :
          LET r == best_sampled_solution(ss, linear, quadratic, offset, index_to_var)
          IN  /\ samples' = ss
              /\ evaluate_calls' =
                     energy_by_sample(ss, linear, quadratic, offset, index_to_var).calls
              /\ IF Ok(r)
                 THEN /\ pc' = "picked"
                      /\ best_bits' = Val(r.val).best_bits
                      /\ best_energy' = Val(r.val).best_energy
                 ELSE /\ pc' = r.exc
                      /\ UNCHANGED <<best_bits, best_energy>>
    /\ UNCHANGED <<courses, course_penalty, conflict_penalty,
                   linear, quadratic, offset, index_to_var, h, J, constant, cost_h, bits, energy,
                   selection, printed>>
    /\ UNCHANGED <<ovVars, ilpVars, durVars, sparseVars>>

\* selection = interpret_selection(bits, index_to_var)
InterpretSelection ==
    /\ pc = "picked"
    /\ LET r == interpret_selection(best_bits, index_to_var)
       IN  IF Ok(r)
           THEN /\ pc' = "interpreted"
                /\ selection' = Val(r.val)
           ELSE /\ pc' = r.exc
                /\ UNCHANGED selection
    /\ UNCHANGED <<courses, course_penalty, conflict_penalty,
                   linear, quadratic, offset, index_to_var, h, J, constant, cost_h, bits, energy,
                   samples, evaluate_calls, best_bits, best_energy, printed>>
    /\ UNCHANGED <<ovVars, ilpVars, durVars, sparseVars>>

\* the "Best sampled assignment" report: bits, each course -> section, energy
PrintSelection ==
    /\ pc = "interpreted"
    /\ pc' = "printed"
    /\ printed' = Some([bits |-> best_bits, selection |-> selection, energy |-> best_energy])
    /\ UNCHANGED <<courses, course_penalty, conflict_penalty,
                   linear, quadratic, offset, index_to_var, h, J, constant, cost_h, bits, energy,
                   samples, evaluate_calls, best_bits, best_energy, selection>>
    /\ UNCHANGED <<ovVars, ilpVars, durVars, sparseVars>>

DecodeNext ==
    \/ BuildQubo
    \/ QuboToIsing
    \/ IsingToPennylaneHamiltonian
    \/ BestSampledSolution
    \/ InterpretSelection
    \/ PrintSelection

SpecDecode == DecodeInit /\ [][DecodeNext]_vars

(***************************************************************************)
(* The integer-program path: build_and_run_model of either script.         *)
(***************************************************************************)
IlpInit ==
    /\ ilp_pc = "start"
    /\ variant \in {"classical", "mini"}
    /\ \E k \in 1..MaxMeetings : meetings = [i \in 1..k |-> i]
    /\ rooms \in InjectiveSeqs(RoomIds)
    /\ timeslots = build_time_slots(variant)
    /\ meeting_enrollment \in [Range(meetings) -> Enrollments]
    /\ room_capacity \in [Range(rooms) -> Capacities]
    /\ meeting_duration \in [Range(meetings) -> Durations]
    /\ all_instructors = <<>>
    /\ meeting_instructors = <<>>
    /\ x = {}
    /\ model_vars = <<>>
    /\ c1 = <<>>
    /\ warnings = <<>>
    /\ SolveIdle
    /\ OvIdle
    /\ QuboIdle
    /\ DurIdle
    /\ SparseIdle

\* the variable generation loop
GenerateVariables ==
    /\ ilp_pc = "start"
    /\ ilp_pc' = "vars"
    /\ model_vars' = GeneratedKeys
    /\ x' = Range(GeneratedKeys)
    /\ UNCHANGED <<ilpInputs, c1, warnings, solveVars>>
    /\ UNCHANGED <<ovVars, quboVars, durVars, sparseVars>>

\* "C1: Schedule Each Meeting Exactly Once"
AddC1 ==
    /\ ilp_pc = "vars"
    /\ ilp_pc' = "c1"
    /\ c1' = C1Constraints
    /\ warnings' = C1Warnings
    /\ UNCHANGED <<ilpInputs, x, model_vars, solveVars>>
    /\ UNCHANGED <<ovVars, quboVars, durVars, sparseVars>>

IlpNext == GenerateVariables \/ AddC1

SpecIlp == IlpInit /\ [][IlpNext]_vars

(***************************************************************************)
(* build_and_run_model after the C1 loop: the room and instructor          *)
(* constraints, the objective, the solve and the printed schedule.  A      *)
(* constraint is its left-hand side (the summed variables in order), its   *)
(* sense and its right-hand side; status and sol are what the solver left  *)
(* in m.Status and in the variables' X (sol: the keys with X > 0.5).       *)
(***************************************************************************)
\* day_slots.index(target_t), zero-based
IndexOf(seq, elem) ==
    (CHOOSE i \in 1..Len(seq) : seq[i] = elem /\ \A j \in 1..(i - 1) : seq[j] # elem) - 1

\* min_start_index = t_index - dur + 1
StartIndexOnly(t_index, dur) == t_index
MinStartIndex(t_index, dur) == t_index - dur + 1

\* the look-back with one duration, that of the first candidate, for all
active_vars_one_duration(target_t, target_r, meeting_subset) ==
    LET day_slots == slots_per_day(target_t[1])
        candidate_meetings == IF meeting_subset # <<>> THEN meeting_subset ELSE meetings
    IN  IF target_t \notin Range(day_slots) THEN <<>>
        ELSE LET t_index == IndexOf(day_slots, target_t)
             IN  Concat([k \in 1..Len(candidate_meetings) |->
                     LET meet == candidate_meetings[k]
                         dur == meeting_duration[candidate_meetings[1]]
                         first == IF MinStartIndex(t_index, dur) > 0
                                  THEN MinStartIndex(t_index, dur) ELSE 0
                     IN  SelectSeq([i \in 1..(t_index - first + 1) |->
                                       <<meet, day_slots[first + i], target_r>>],
                                   LAMBDA key : key \in x)])

get_active_vars_at_time(target_t, target_r, meeting_subset) ==
    LET target_day == target_t[1]
        day_slots == slots_per_day(target_day)
        candidate_meetings == IF meeting_subset # <<>> THEN meeting_subset ELSE meetings
    IN  IF target_t \notin Range(day_slots) THEN <<>>
        ELSE LET t_index == IndexOf(day_slots, target_t)
             IN  Concat([k \in 1..Len(candidate_meetings) |->
                     LET meet == candidate_meetings[k]
                         dur == meeting_duration[meet]
                         first == IF MinStartIndex(t_index, dur) > 0
                                  THEN MinStartIndex(t_index, dur) ELSE 0
                     IN  SelectSeq([i \in 1..(t_index - first + 1) |->
                                       <<meet, day_slots[first + i], target_r>>],
                                   LAMBDA key : key \in x)])

\* "C2: No Two Meetings in the Same Room at the Same Time"
C2Constraints ==
    Concat([r \in 1..Len(rooms) |->
        Concat([t \in 1..Len(timeslots) |->
            LET active_vars == get_active_vars_at_time(timeslots[t], rooms[r], meetings)
            IN  IF active_vars = <<>> THEN <<>>
                ELSE <<[name |-> <<rooms[r], timeslots[t]>>, lhs |-> active_vars,
                        sense |-> "<=", rhs |-> 1]>>])])

\* [m for m in meetings if instructor in meeting_instructors.get(m, [])]
meetings_led_by(instructor) ==
    SelectSeq(meetings, LAMBDA m : /\ m \in DOMAIN meeting_instructors
                                   /\ meeting_instructors[m] # <<>>
                                   /\ meeting_instructors[m][1] = instructor)
meetings_by_instructor(instructor) ==
    SelectSeq(meetings, LAMBDA m : /\ m \in DOMAIN meeting_instructors
                                   /\ instructor \in Range(meeting_instructors[m]))

\* "C4: No Instructor Conflict"
C4Constraints ==
    Concat([n \in 1..Len(all_instructors) |->
        IF meetings_by_instructor(all_instructors[n]) = <<>> THEN <<>>
        ELSE [t \in 1..Len(timeslots) |->
                 [name |-> <<all_instructors[n], timeslots[t]>>,
                  lhs |-> Concat([r \in 1..Len(rooms) |->
                             get_active_vars_at_time(timeslots[t], rooms[r],
                                                     meetings_by_instructor(all_instructors[n]))]),
                  sense |-> "<=", rhs |-> 1]]])

\* int(num_rooms * 0.5)
overflow_start_rounded_up == (Len(rooms) + 1) \div 2
overflow_start_index == Len(rooms) \div 2

\* total_weight = wasted_space_cost + activation_cost of the mini script
total_weight(meeting, r_idx, room) ==
    (room_capacity[room] - meeting_enrollment[meeting])
        + (IF r_idx >= overflow_start_index THEN 1000 ELSE 0)

\* m.setObjective(0, GRB.MINIMIZE), or objective_expr in the mini script
ObjectiveCoefficients ==
    [key \in x |-> IF variant = "mini"
                   THEN total_weight(key[1], IndexOf(sorted_rooms, key[3]), key[3])
                   ELSE 0]

\* the value of a linear expression under an assignment: each summed
\* variable counts as often as it occurs
LhsValue(lhs, assignment) == Cardinality({i \in 1..Len(lhs) : lhs[i] \in assignment})

Satisfies(assignment, con) ==
    IF con.sense = "==" THEN LhsValue(con.lhs, assignment) = con.rhs
    ELSE LhsValue(con.lhs, assignment) <= con.rhs

\* one variable out of every C1 row
RECURSIVE Picks(_)
Picks(rows) ==
    IF rows = <<>> THEN {{}}
    ELSE {{key} \cup rest : key \in Range(Head(rows).lhs), rest \in Picks(Tail(rows))}

\* the 0/1 assignments of the variables that satisfy every constraint of
\* the model, each as the set of variables at 1.  An assignment that
\* satisfies the C1 rows has a variable of every row at 1, so it is a pick
\* together with variables outside the rows; every candidate is then
\* tested against all constraints.
FeasibleAssignments ==
    LET in_rows == UNION {Range(c1[k].lhs) : k \in 1..Len(c1)}
        candidates == {p \cup f : p \in Picks(c1), f \in SUBSET (x \ in_rows)}
        all == c1 \o c2 \o c4
    IN  {a \in candidates : \A k \in 1..Len(all) : Satisfies(a, all[k])}

ObjectiveValue(assignment) == SumFn([key \in assignment |-> objective[key]])

\* what m.optimize() can leave behind when it returns
OptimalAssignments ==
    {a \in FeasibleAssignments : \A b \in FeasibleAssignments : ObjectiveValue(a) <= ObjectiveValue(b)}

\* one line of the printed schedule: slot_key, note, meeting, instructor, room
ScheduleEntry(key, i) ==
    [slot |-> <<key[2][1], key[2][2] + i>>,
     note |-> IF i > 0 THEN "(Cont.)" ELSE "(Start)",
     meeting |-> key[1],
     instr |-> IF meeting_instructors[key[1]] = <<>> THEN "Staff"
               ELSE meeting_instructors[key[1]][1],
     room |-> key[3]]

\* an entry at the start slot only
print_start_slots(model_status, x_values) ==
    IF model_status = "OPTIMAL"
    THEN [text |-> "Schedule Generated", schedule |-> {ScheduleEntry(key, 0) : key \in x_values}]
    ELSE [text |-> "No feasible solution found.", schedule |-> {}]

\* print_schedule: an entry per covered slot of every variable with X > 0.5
print_schedule(model_status, x_values) ==
    IF model_status = "OPTIMAL"
    THEN [text |-> "Schedule Generated",
          schedule |-> UNION {{ScheduleEntry(key, i) : i \in 0..(meeting_duration[key[1]] - 1)} :
                                 key \in x_values}]
    ELSE [text |-> "No feasible solution found.", schedule |-> {}]

(***************************************************************************)
(* Inputs of the full run: one or two days of the slot grid, instructor    *)
(* lists per meeting, and all_instructors as the distinct instructors in   *)
(* order of first appearance.                                              *)
(***************************************************************************)
SolveEnrollments == {45, 60}

\* df['INSTRUCTORS'].explode().unique().tolist()
RECURSIVE UniqueInOrder(_)
UniqueInOrder(q) ==
    IF q = <<>> THEN <<>>
    ELSE LET front == UniqueInOrder(SubSeq(q, 1, Len(q) - 1))
         IN  IF q[Len(q)] \in Range(front) THEN front ELSE Append(front, q[Len(q)])

\* the first meeting is taught by "X" alone or by "X" and "Y", a later one
\* by "X" or by "Y"
InstructorMaps(ms) ==
    {f \in [Range(ms) -> {<<"X">>, <<"Y">>, <<"X", "Y">>}] :
        /\ f[ms[1]] # <<"Y">>
        /\ \A k \in 2..Len(ms) : f[ms[k]] # <<"X", "Y">>}

SolveInit ==
    /\ ilp_pc = "start"
    /\ variant \in {"classical", "mini"}
    /\ \E k \in 1..MaxMeetings : meetings = [i \in 1..k |-> i]
    /\ \E k \in 1..MaxRooms : rooms = [i \in 1..k |-> i]
    /\ \E d \in 1..MaxDays :
          /\ d <= Len(DaysOf(variant))
          /\ timeslots = SubSeq(build_time_slots(variant), 1, d * NumHours)
    /\ meeting_enrollment \in [Range(meetings) -> SolveEnrollments]
    /\ room_capacity \in [Range(rooms) -> Capacities]
    /\ meeting_duration \in [Range(meetings) -> Durations]
    /\ meeting_instructors \in InstructorMaps(meetings)
    /\ all_instructors =
           UniqueInOrder(Concat([k \in 1..Len(meetings) |-> meeting_instructors[meetings[k]]]))
    /\ x = {}
    /\ model_vars = <<>>
    /\ c1 = <<>>
    /\ warnings = <<>>
    /\ SolveIdle
    /\ OvIdle
    /\ QuboIdle
    /\ DurIdle
    /\ SparseIdle

\* "C2: No Two Meetings in the Same Room at the Same Time"
AddC2 ==
    /\ ilp_pc = "c1"
    /\ ilp_pc' = "c2"
    /\ c2' = C2Constraints
    /\ UNCHANGED <<ilpInputs, x, model_vars, c1, warnings,
                   c4, objective, status, sol, optimize_calls, reports, caught>>
    /\ UNCHANGED <<ovVars, quboVars, durVars, sparseVars>>

\* "C4: No Instructor Conflict"
AddC4 ==
    /\ ilp_pc = "c2"
    /\ ilp_pc' = "c4"
    /\ c4' = C4Constraints
    /\ UNCHANGED <<ilpInputs, x, model_vars, c1, warnings,
                   c2, objective, status, sol, optimize_calls, reports, caught>>
    /\ UNCHANGED <<ovVars, quboVars, durVars, sparseVars>>

\* m.setObjective(..., GRB.MINIMIZE)
SetObjective ==
    /\ ilp_pc = "c4"
    /\ ilp_pc' = "objective"
    /\ objective' = ObjectiveCoefficients
    /\ UNCHANGED <<ilpInputs, x, model_vars, c1, warnings,
                   c2, c4, status, sol, optimize_calls, reports, caught>>
    /\ UNCHANGED <<ovVars, quboVars, durVars, sparseVars>>

\* m.optimize(): the first call solves the model; the second call of the
\* mini script finds it solved and leaves status and X as they are.  Either
\* call can fail with a GurobiError, which the "except gp.GurobiError"
\* handler prints before build_and_run_model returns.
Optimize ==
    /\ ilp_pc \in {"objective", "again"}
    /\ optimize_calls' = optimize_calls + 1
    /\ \/ /\ ilp_pc = "objective"
          /\ ilp_pc' = "solved"
          /\ IF OptimalAssignments = {}
             THEN status' = "INFEASIBLE" /\ sol' = {}
             ELSE status' = "OPTIMAL" /\ sol' \in OptimalAssignments
          /\ UNCHANGED caught
       \/ /\ ilp_pc = "again"
          /\ ilp_pc' = "solved"
          /\ UNCHANGED <<status, sol, caught>>
       \/ /\ ilp_pc' = "returned"
          /\ caught' = "GurobiError"
          /\ UNCHANGED <<status, sol>>
    /\ UNCHANGED <<ilpInputs, x, model_vars, c1, warnings, c2, c4, objective, reports>>
    /\ UNCHANGED <<ovVars, quboVars, durVars, sparseVars>>

\* print_schedule(m, x, ...).  The mini script prints after its first
\* optimize only "if m.Status == GRB.OPTIMAL", optimizes again and prints
\* unconditionally.
PrintSchedule ==
    /\ ilp_pc = "solved"
    /\ IF variant = "mini" /\ optimize_calls = 1
       THEN /\ ilp_pc' = "again"
            /\ reports' = IF status = "OPTIMAL"
                          THEN Append(reports, print_schedule(status, sol))
                          ELSE reports
       ELSE /\ ilp_pc' = "returned"
            /\ reports' = Append(reports, print_schedule(status, sol))
    /\ UNCHANGED <<ilpInputs, x, model_vars, c1, warnings,
                   c2, c4, objective, status, sol, optimize_calls, caught>>
    /\ UNCHANGED <<ovVars, quboVars, durVars, sparseVars>>

SolveNext ==
    GenerateVariables \/ AddC1 \/ AddC2 \/ AddC4 \/ SetObjective \/ Optimize \/ PrintSchedule

SpecSolve == SolveInit /\ [][SolveNext]_vars

(***************************************************************************)
(* calculate_duration_slots, the same in both scripts: the number of       *)
(* hourly slots a meeting needs, from the BEGIN and END cells of the CSV.  *)
(* A cell is None (NaN) or a string.                                       *)
(***************************************************************************)
\* str.upper() on one character
Upper(c) == IF c \in 97..122 THEN c - 32 ELSE c

\* datetime.strptime(s, "%I:%M%p"), as minutes after midnight of its date
strptime(s) ==
    LET parts == SplitColon(s)
        hh == parts[1]
        rest == parts[2]
        mm == SubSeq(rest, 1, Len(rest) - 2)
        ap == [i \in 1..2 |-> Upper(rest[Len(rest) - 2 + i])]
        hour == IF ap = <<80, 77>>
                THEN (IF ParseInt(hh) = 12 THEN 12 ELSE ParseInt(hh) + 12)
                ELSE (IF ParseInt(hh) = 12 THEN 0 ELSE ParseInt(hh))
    IN  IF \/ Len(parts) # 2
           \/ ~IsDecimal(hh) \/ Len(hh) > 2 \/ ParseInt(hh) \notin 1..12
           \/ Len(rest) < 3
           \/ ~IsDecimal(mm) \/ Len(mm) > 2 \/ ParseInt(mm) > 59
           \/ ap \notin {<<65, 77>>, <<80, 77>>}
        THEN Raised("ValueError")
        ELSE Returned(hour * 60 + ParseInt(mm))

\* slots = math.ceil(diff_minutes / 60)
SlotsRoundedDown(diff_minutes) == diff_minutes \div 60
SlotsFor(diff_minutes) == -((-diff_minutes) \div 60)

calculate_duration_slots(begin, end) ==
    IF IsNone(begin) \/ IsNone(end) \/ begin = Some(<<84, 66, 65>>) THEN 1
    ELSE LET t_start == strptime(Val(begin))
             t_end == strptime(Val(end))
         IN  IF ~Ok(t_start) \/ ~Ok(t_end) THEN 1
             ELSE LET diff_minutes == Val(t_end.val) - Val(t_start.val)
                      slots == SlotsFor(diff_minutes)
                  IN  IF slots > 1 THEN slots ELSE 1

\* strftime("%I:%M%p") of a 24-hour clock time, the layout of the CSV ("08:00AM")
Fmt12(hh, mm) ==
    LET h12 == IF hh % 12 = 0 THEN 12 ELSE hh % 12
    IN  <<Digit(h12 \div 10), Digit(h12 % 10), 58, Digit(mm \div 10), Digit(mm % 10),
          IF hh < 12 THEN 65 ELSE 80, 77>>

\* <<hour, minute>> of the BEGIN and END cells the function is exercised on
ClockTimes ==
    {<<0, 0>>, <<8, 0>>, <<8, 1>>, <<8, 50>>, <<9, 0>>, <<9, 1>>, <<9, 20>>,
     <<10, 0>>, <<10, 1>>, <<11, 59>>, <<12, 0>>, <<12, 30>>, <<13, 20>>, <<21, 0>>}

\* the cells: NaN, "TBA", a 24-hour string "13:00" and the formatted times
TimeCells ==
    {None, Some(<<84, 66, 65>>), Some(TimeStr(13, 0))}
        \cup {Some(Fmt12(c[1], c[2])) : c \in ClockTimes}

DurInit ==
    /\ dur_pc = "ready"
    /\ begin_str \in TimeCells
    /\ end_str \in TimeCells
    /\ dur_result = 0
    /\ OvIdle
    /\ QuboIdle
    /\ IlpIdle
    /\ SparseIdle

CallDuration ==
    /\ dur_pc = "ready"
    /\ dur_pc' = "called"
    /\ dur_result' = calculate_duration_slots(begin_str, end_str)
    /\ UNCHANGED <<begin_str, end_str>>
    /\ UNCHANGED <<ovVars, quboVars, ilpVars, sparseVars>>

DurNext == CallDuration

SpecDuration == DurInit /\ [][DurNext]_vars

(***************************************************************************)
(* qubo_to_ising_sparse of the hybrid job: the rows (i, j, value) of       *)
(* qubo_sparse.csv to the arrays h and J that build_qaoa_fixed turns into  *)
(* rotations.  J[i, j] += q / 2.0 is exact in binary floating point, so    *)
(* sparse_h and sparse_J hold SparseScale times the Python values.         *)
(***************************************************************************)
MaxSparseRows == 2
MaxSparseIndex == 1
SparseScale == 2

\* a row of the data frame: <<i, j, value>>
SparseValues == {-2, 1, 3}
SparseRows == (0..MaxSparseIndex) \X (0..MaxSparseIndex) \X SparseValues

MaxOf(S) == CHOOSE m \in S : \A k \in S : k <= m

\* the loop over df.iterrows()
RECURSIVE SparseLoop(_, _)
SparseLoop(acc, rows) ==
    IF rows = <<>> THEN acc
    ELSE LET i == Head(rows)[1]
             j == Head(rows)[2]
             q == Head(rows)[3]
         IN  IF i = j
             THEN SparseLoop([h |-> [acc.h EXCEPT ![i] = @ + q * SparseScale], J |-> acc.J],
                             Tail(rows))
             ELSE SparseLoop(
                      [h |-> acc.h,
                       J |-> [acc.J EXCEPT ![<<i, j>>] = @ + (q * SparseScale) \div 2,
                                           ![<<j, i>>] = @ + (q * SparseScale) \div 2]],
                      Tail(rows))

qubo_to_ising_sparse(rows) ==
    LET n == MaxOf({rows[k][1] : k \in 1..Len(rows)} \cup {rows[k][2] : k \in 1..Len(rows)}) + 1
    IN  SparseLoop([h |-> [i \in 0..(n - 1) |-> 0],
                    J |-> [p \in (0..(n - 1)) \X (0..(n - 1)) |-> 0]],
                   rows)

SparseInit ==
    /\ sp_pc = "loaded"
    /\ df \in SeqsFromTo(SparseRows, 1, MaxSparseRows)
    /\ sparse_h = <<>>
    /\ sparse_J = <<>>
    /\ OvIdle
    /\ QuboIdle
    /\ IlpIdle
    /\ DurIdle

\* h, J = qubo_to_ising_sparse(df)
QuboToIsingSparse ==
    /\ sp_pc = "loaded"
    /\ sp_pc' = "converted"
    /\ sparse_h' = qubo_to_ising_sparse(df).h
    /\ sparse_J' = qubo_to_ising_sparse(df).J
    /\ UNCHANGED df
    /\ UNCHANGED <<ovVars, quboVars, ilpVars, durVars>>

SparseNext == QuboToIsingSparse

SpecSparse == SparseInit /\ [][SparseNext]_vars

(***************************************************************************)
(* Properties of the interval model (SpecOverlaps).                        *)
(***************************************************************************)
\* the minute of the day a stored "%H:%M" string denotes, read off the
\* formatter rather than the parser
MinuteOf(t) == CHOOSE n \in 0..1439 : TimeStr(n \div 60, n % 60) = Val(t)

Timed(s) == ~IsNone(s.days) /\ ~IsNone(s.begin) /\ ~IsNone(s.end)

ShareDay(a, b) == \E d \in Range(Val(a.days)) : d \in Range(Val(b.days))

\* some minute lies in both half-open windows
ShareMinute(a, b) ==
    LET ba == MinuteOf(a.begin)
        ea == MinuteOf(a.end)
        bb == MinuteOf(b.begin)
        eb == MinuteOf(b.end)
    IN  \E n \in 0..1439 : ba <= n /\ n < ea /\ bb <= n /\ n < eb

\* C5: overlaps(a, b) is true exactly when a and b share a meeting day and
\* their half-open windows [begin, end) intersect, that is
\* not (end_a <= begin_b or end_b <= begin_a); a window that ends when the
\* other begins does not overlap it, and without a common day the answer is
\* false whatever the times are.
C5_OverlapsContract ==
    ov_pc = "called" =>
        /\ (Timed(section_a) /\ Timed(section_b)) =>
              /\ ov_result = Returned(
                     /\ ShareDay(section_a, section_b)
                     /\ ~(\/ MinuteOf(section_a.end) <= MinuteOf(section_b.begin)
                          \/ MinuteOf(section_b.end) <= MinuteOf(section_a.begin)))
              /\ ov_result = Returned(ShareDay(section_a, section_b)
                                      /\ ShareMinute(section_a, section_b))
              /\ MinuteOf(section_a.end) = MinuteOf(section_b.begin)
                    => ov_result = Returned(FALSE)
        /\ (/\ ~IsNone(section_a.days) /\ ~IsNone(section_b.days)
            /\ ~ShareDay(section_a, section_b)) => ov_result = Returned(FALSE)

\* C5 witness: a call on two sections of the same day, the first ending at
\* the minute the second begins, answered false.
C5_Witness ==
    /\ ov_pc = "called"
    /\ Timed(section_a) /\ Timed(section_b)
    /\ ShareDay(section_a, section_b)
    /\ MinuteOf(section_a.end) = MinuteOf(section_b.begin)
    /\ ov_result = Returned(FALSE)

\* C6: overlaps is symmetric on sections whose days and times are given:
\* the answer to overlaps(a, b) is the answer to overlaps(b, a).
C6_OverlapsSymmetric ==
    (ov_pc = "called" /\ Timed(section_a) /\ Timed(section_b)) =>
        /\ Ok(ov_result)
        /\ ov_result = overlaps(section_b, section_a)

\* C6 witness: a call answered true on two different sections.
C6_Witness ==
    /\ ov_pc = "called"
    /\ Timed(section_a) /\ Timed(section_b)
    /\ section_a # section_b
    /\ ov_result = Returned(TRUE)

(***************************************************************************)
(* Properties of the QUBO path (SpecQubo).                                 *)
(***************************************************************************)
Secs == AllSections(courses)
NumVars == Cardinality(DOMAIN index_to_var)
AllBits == [1..NumVars -> {0, 1}]

DistinctCourseIds ==
    \A i, j \in 1..Len(courses) : i # j => courses[i].course # courses[j].course

NamesUnique == \A i, j \in 1..Len(Secs) : i # j => Secs[i].var # Secs[j].var

\* the positions, in insertion order, of the sections of the k-th course
CoursePositions(k) ==
    LET start == SumFn([j \in 1..(k - 1) |-> Len(courses[j].sections)])
    IN  (start + 1)..(start + Len(courses[k].sections))

SelectedCount(b, k) == Cardinality({i \in CoursePositions(k) : b[i] = 1})

OverlapPairs(b) ==
    {p \in (1..Len(Secs)) \X (1..Len(Secs)) :
        /\ p[1] < p[2] /\ b[p[1]] = 1 /\ b[p[2]] = 1
        /\ overlaps(Secs[p[1]].sec, Secs[p[2]].sec) = Returned(TRUE)}

Feasible(b) ==
    /\ \A k \in 1..Len(courses) : SelectedCount(b, k) = 1
    /\ OverlapPairs(b) = {}

Energy(b) == Val(evaluate_qubo(b, linear, quadratic, offset, index_to_var).val)

IsMinimum(b) == \A c \in AllBits : Energy(b) <= Energy(c)

PenaltySum(b) ==
    SumFn([k \in 1..Len(courses) |->
              course_penalty * (SelectedCount(b, k) - 1) * (SelectedCount(b, k) - 1)])
    + conflict_penalty * Cardinality(OverlapPairs(b))

\* offset + sum linear[v] x_v + sum quadratic[(a, b)] x_a x_b
QuboPoly(asg) ==
    offset + SumFn([v \in DOMAIN linear |-> linear[v] * asg[v]])
           + SumFn([k \in DOMAIN quadratic |-> quadratic[k] * asg[k[1]] * asg[k[2]]])

\* constant + sum h[v] z_v + sum J[(a, b)] z_a z_b at z_v = 1 - 2 x_v
IsingPoly(asg) ==
    constant + SumFn([v \in DOMAIN h |-> h[v] * (1 - 2 * asg[v])])
             + SumFn([k \in DOMAIN J |-> J[k] * (1 - 2 * asg[k[1]]) * (1 - 2 * asg[k[2]])])

\* the assignment of the variables that a bitstring denotes
AssignmentOf(b) == [v \in DOMAIN linear |-> b[VarToIndex(index_to_var)[v] + 1]]

\* C1: for the model build_qubo returned and its transform by qubo_to_ising,
\* the QUBO energy of every bit assignment equals the Ising energy of its
\* spin encoding (bit 1 is spin -1, bit 0 is spin +1); with one name per
\* index that QUBO energy is the value evaluate_qubo computes.
C1_EnergyEquivalence ==
    /\ pc = "ising" =>
          /\ \A asg \in [DOMAIN linear -> {0, 1}] : IsingScale * QuboPoly(asg) = IsingPoly(asg)
          /\ NamesUnique =>
                \A b \in AllBits : IsingScale * Energy(b) = IsingPoly(AssignmentOf(b))
    /\ (pc = "evaluated" /\ NamesUnique) =>
          IsingScale * energy = IsingPoly(AssignmentOf(bits))

\* C1 witness: an evaluated bitstring that selects both ends of a coupling.
C1_Witness ==
    /\ pc = "evaluated"
    /\ NamesUnique
    /\ \E k \in DOMAIN J :
          /\ J[k] # 0
          /\ AssignmentOf(bits)[k[1]] = 1
          /\ AssignmentOf(bits)[k[2]] = 1
    /\ energy > 0
    /\ IsingScale * energy = IsingPoly(AssignmentOf(bits))

\* C2 as stated: for any course list and positive penalties, a bit
\* assignment attains the minimum energy of the built model if and only if
\* it selects exactly one section of every course and no two selected
\* sections overlap.
C2_MinimumIffFeasible ==
    pc = "built" => \A b \in AllBits : IsMinimum(b) <=> Feasible(b)

\* C2 amended: the same equivalence for a course list with pairwise
\* distinct course identifiers that admits at least one assignment
\* selecting exactly one section of every course with no overlapping pair.
C2_MinimumIffFeasibleWhenSatisfiable ==
    (pc = "built" /\ DistinctCourseIds /\ \E b \in AllBits : Feasible(b)) =>
        \A b \in AllBits : IsMinimum(b) <=> Feasible(b)

\* C2 witness: two courses, a conflict-free choice exists, and another
\* one-per-course choice selects an overlapping pair.
C2_Witness ==
    /\ pc = "built"
    /\ DistinctCourseIds
    /\ Len(courses) = 2
    /\ \E b \in AllBits : Feasible(b) /\ IsMinimum(b)
    /\ \E b \in AllBits :
          /\ \A k \in 1..Len(courses) : SelectedCount(b, k) = 1
          /\ OverlapPairs(b) # {}
          /\ ~IsMinimum(b)

\* C3: with pairwise distinct course identifiers, evaluate_qubo on the
\* built model is, for every bit assignment, the sum over the courses of
\* course_penalty * (selected sections of the course - 1)^2 plus
\* conflict_penalty times the number of selected overlapping pairs.
C3_EnergyIsPenaltySum ==
    /\ (pc = "built" /\ DistinctCourseIds) => \A b \in AllBits : Energy(b) = PenaltySum(b)
    /\ (pc = "evaluated" /\ DistinctCourseIds) => energy = PenaltySum(bits)

\* C3 witness: an evaluated bitstring that selects two overlapping sections
\* of one course.
C3_Witness ==
    /\ pc = "evaluated"
    /\ DistinctCourseIds
    /\ \E k \in 1..Len(courses) : SelectedCount(bits, k) = 2
    /\ OverlapPairs(bits) # {}
    /\ energy = PenaltySum(bits)

KeysCanonical(d) ==
    /\ \A k \in DOMAIN d : ~StrLess(k[2], k[1])
    /\ \A k1, k2 \in DOMAIN d : (k1[1] = k2[2] /\ k1[2] = k2[1]) => k1 = k2

\* C4: every pair key of the quadratic map and of the J map is stored in
\* sorted order, so (a, b) and (b, a) never coexist as distinct keys.
C4_CanonicalPairs ==
    /\ pc \in {"built", "ising", "evaluated"} => KeysCanonical(quadratic)
    /\ pc \in {"ising", "evaluated"} => KeysCanonical(J)

\* C4 witness: a pair inserted in descending name order that received both a
\* course-selection and a conflict contribution, present under its sorted key.
C4_Witness ==
    /\ pc = "ising"
    /\ \E i, j \in 1..Len(Secs) :
          /\ i < j
          /\ StrLess(Secs[j].var, Secs[i].var)
          /\ <<Secs[j].var, Secs[i].var>> \in DOMAIN quadratic
          /\ <<Secs[j].var, Secs[i].var>> \in DOMAIN J
          /\ quadratic[<<Secs[j].var, Secs[i].var>>] = 2 * course_penalty + conflict_penalty

\* a section without meeting days or without a begin or end time
Untimed(s) == IsNone(s.days) \/ Val(s.days) = <<>> \/ IsNone(s.begin) \/ IsNone(s.end)

\* C7: a section with no meeting days or no begin/end time never overlaps
\* anything: build_qubo completes, and overlaps answers false for every pair
\* of the conflict scan that contains such a section.
C7_UntimedNeverOverlaps ==
    (pc # "start" /\ \E i \in 1..Len(Secs) : Untimed(Secs[i].sec)) =>
        /\ pc \in {"built", "ising", "evaluated"}
        /\ \A k \in 1..Len(ConflictScan(courses)) :
              LET e == ConflictScan(courses)[k]
              IN  (Untimed(Secs[e.pair[1]].sec) \/ Untimed(Secs[e.pair[2]].sec))
                      => e.res = Returned(FALSE)

\* C8: index_to_var has exactly the keys 0..n-1 in insertion order and maps
\* them to n pairwise distinct names, so the reverse name-to-index mapping is
\* its exact inverse.
C8_IndexerBijective ==
    pc = "built" =>
        /\ DOMAIN index_to_var = 0..(Len(Secs) - 1)
        /\ \A i \in DOMAIN index_to_var : index_to_var[i] = Secs[i + 1].var
        /\ \A i, j \in DOMAIN index_to_var : i # j => index_to_var[i] # index_to_var[j]
        /\ \A i \in DOMAIN index_to_var : VarToIndex(index_to_var)[index_to_var[i]] = i

\* the index of the course the i-th variable was created for
CourseIndexOfPosition(i) == CHOOSE k \in 1..Len(courses) : i \in CoursePositions(k)

\* the unordered pairs of variables, by position, and those of one course
VariablePairs == {p \in (1..Len(Secs)) \X (1..Len(Secs)) : p[1] < p[2]}

SameCoursePairs ==
    {p \in VariablePairs : CourseIndexOfPosition(p[1]) = CourseIndexOfPosition(p[2])}

PairKey(p) == CanonicalKey(Secs[p[1]].var, Secs[p[2]].var)

PairOverlaps(p) == overlaps(Secs[p[1]].sec, Secs[p[2]].sec) = Returned(TRUE)

\* the model as the course-selection loop leaves it, before the conflict loop
AfterCourseSelection ==
    CourseSelection([linear |-> LinearZero(courses), offset |-> 0, quadratic |-> <<>>],
                    courses, course_penalty)

\* C22: in the model returned by build_qubo for distinct course
\* identifiers, before the conflict terms every variable has the linear
\* coefficient -course_penalty, every unordered pair of variables of one
\* course carries the quadratic contribution 2 * course_penalty (and no
\* other pair has one), and the offset is course_penalty times the number of
\* courses; the conflict loop leaves linear and offset as they are and adds
\* to the 2 * course_penalty of a same-course pair.
C22_CourseSelectionCoefficients ==
    (pc = "built" /\ DistinctCourseIds) =>
        /\ DOMAIN linear = {Secs[i].var : i \in 1..Len(Secs)}
        /\ \A v \in DOMAIN linear : linear[v] = -course_penalty
        /\ offset = course_penalty * Len(courses)
        /\ AfterCourseSelection.linear = linear
        /\ AfterCourseSelection.offset = offset
        /\ DOMAIN AfterCourseSelection.quadratic = {PairKey(p) : p \in SameCoursePairs}
        /\ \A p \in SameCoursePairs :
              /\ AfterCourseSelection.quadratic[PairKey(p)] = 2 * course_penalty
              /\ quadratic[PairKey(p)] =
                     2 * course_penalty + (IF PairOverlaps(p) THEN conflict_penalty ELSE 0)

\* C22 witness: two courses, one of them with two sections, built with a
\* course penalty other than 1: the pair of the two sections carries twice
\* the penalty and the offset is twice the penalty.
C22_Witness ==
    /\ pc = "built"
    /\ DistinctCourseIds
    /\ Len(courses) = 2
    /\ course_penalty > 1
    /\ SameCoursePairs # {}
    /\ \E p \in SameCoursePairs : AfterCourseSelection.quadratic[PairKey(p)] = 2 * course_penalty
    /\ offset = 2 * course_penalty
    /\ \E v \in DOMAIN linear : linear[v] = -course_penalty

\* what the conflict loop is said to leave behind: linear and offset as the
\* course-selection loop wrote them, conflict_penalty added on every
\* overlapping pair, and no entry for a non-overlapping pair of two courses
ConflictCoefficients ==
    /\ linear = AfterCourseSelection.linear
    /\ offset = AfterCourseSelection.offset
    /\ \A p \in VariablePairs :
          /\ PairOverlaps(p) =>
                /\ PairKey(p) \in DOMAIN quadratic
                /\ quadratic[PairKey(p)] =
                       (IF p \in SameCoursePairs THEN 2 * course_penalty ELSE 0)
                           + conflict_penalty
          /\ (~PairOverlaps(p) /\ p \notin SameCoursePairs) => PairKey(p) \notin DOMAIN quadratic

\* C23: build_qubo adds conflict_penalty to the quadratic coefficient of
\* every unordered pair of variables of the whole problem whose sections
\* overlap and changes neither linear nor offset for it; an overlapping pair
\* of one course ends with 2 * course_penalty + conflict_penalty, an
\* overlapping pair of two courses with conflict_penalty, and a
\* non-overlapping pair of two courses has no quadratic entry.
C23_ConflictTermsAccumulate ==
    pc = "built" => ConflictCoefficients

\* the variable has a field, or takes part in a coupling, that the
\* Hamiltonian keeps
HasTerm(v) ==
    \/ KeepsTerm(h[v])
    \/ \E k \in DOMAIN J : KeepsTerm(J[k]) /\ (k[1] = v \/ k[2] = v)

\* C30: for every model built by build_qubo over distinct course
\* identifiers with a positive course penalty and transformed by
\* qubo_to_ising, every variable has a field or a coupling that
\* ising_to_pennylane_hamiltonian keeps, so the Hamiltonian acts on every
\* wire 0..n-1 and the bitstrings sampled over range(len(cost_h.wires))
\* have exactly one bit per variable, bit i belonging to index_to_var[i].
C30_OneBitPerVariable ==
    (pc = "hamiltonian" /\ DistinctCourseIds /\ course_penalty > 0 /\ conflict_penalty >= 0) =>
        /\ \A v \in DOMAIN h : HasTerm(v)
        /\ \A i \in DOMAIN index_to_var : i \in HamiltonianWires(cost_h)
        /\ Cardinality(HamiltonianWires(cost_h)) = NumVars
        /\ 0..(Cardinality(HamiltonianWires(cost_h)) - 1) = DOMAIN index_to_var

(***************************************************************************)
(* Properties of the decode path (SpecDecode).                             *)
(***************************************************************************)
FirstOccurrence(b) == CHOOSE k \in 1..Len(samples) :
                          samples[k] = b /\ \A j \in 1..(k - 1) : samples[j] # b

\* C14: for a non-empty sample sequence best_sampled_solution returns a
\* sampled pattern of minimum evaluate_qubo energy together with that
\* energy; among the patterns of minimum energy it returns the one first
\* seen; and evaluate_qubo is called once per distinct pattern.
C14_FirstSeenMinimum ==
    pc = "picked" =>
        /\ \E k \in 1..Len(samples) : samples[k] = best_bits
        /\ best_energy = Energy(best_bits)
        /\ \A k \in 1..Len(samples) :
              /\ Energy(samples[k]) >= best_energy
              /\ Energy(samples[k]) = best_energy => FirstOccurrence(best_bits) <= k
        /\ Range(evaluate_calls) = Range(samples)
        /\ Len(evaluate_calls) = Cardinality(Range(samples))

\* C14 witness: three samples, the first repeated as the third, the first
\* two tied at the minimum, and the first returned after two evaluations.
C14_Witness ==
    /\ pc = "picked"
    /\ Len(samples) = 3
    /\ samples[1] # samples[2]
    /\ samples[3] = samples[1]
    /\ Energy(samples[1]) = Energy(samples[2])
    /\ best_bits = samples[1]
    /\ Len(evaluate_calls) = 2

\* the course and the section the i-th variable was created for
CourseOfPosition(i) == courses[CHOOSE k \in 1..Len(courses) : i \in CoursePositions(k)].course
SectionOfPosition(i) == Secs[i].sec.section_id

SelectedOfCourse(b, c) == {i \in 1..Len(Secs) : b[i] = 1 /\ CourseOfPosition(i) = c}

LastSelectedOfCourse(b, c) ==
    CHOOSE i \in SelectedOfCourse(b, c) : \A j \in SelectedOfCourse(b, c) : j <= i

\* C15 as stated: for every bit assignment the dictionary holds, for every
\* index whose bit is 1, the entry course -> section of that index, and no
\* entry for a course none of whose bits is 1.
C15_EverySelectedIndexHasItsEntry ==
    pc = "built" =>
        \A b \in AllBits :
            LET r == interpret_selection(b, index_to_var)
            IN  /\ Ok(r)
                /\ \A i \in 1..Len(Secs) :
                      b[i] = 1 => /\ CourseOfPosition(i) \in DOMAIN Val(r.val)
                                  /\ Val(r.val)[CourseOfPosition(i)] = SectionOfPosition(i)
                /\ \A c \in DOMAIN Val(r.val) : SelectedOfCourse(b, c) # {}

\* C15 amended: the keys of the dictionary are exactly the courses with a
\* selected index, and each is mapped to the section of the highest
\* selected index of that course: the entry of every selected index is
\* there when no course has two selected indices.
C15_LastSelectedIndexHasItsEntry ==
    /\ pc = "built" =>
          \A b \in AllBits :
              LET r == interpret_selection(b, index_to_var)
              IN  /\ Ok(r)
                  /\ DOMAIN Val(r.val) = {CourseOfPosition(i) : i \in {j \in 1..Len(Secs) : b[j] = 1}}
                  /\ \A c \in DOMAIN Val(r.val) :
                        Val(r.val)[c] = SectionOfPosition(LastSelectedOfCourse(b, c))
                  /\ (\A c \in DOMAIN Val(r.val) : Cardinality(SelectedOfCourse(b, c)) = 1) =>
                        \A i \in 1..Len(Secs) :
                            b[i] = 1 => Val(r.val)[CourseOfPosition(i)] = SectionOfPosition(i)
    /\ pc = "interpreted" =>
          /\ DOMAIN selection = {CourseOfPosition(i) : i \in {j \in 1..Len(Secs) : best_bits[j] = 1}}
          /\ \A c \in DOMAIN selection :
                selection[c] = SectionOfPosition(LastSelectedOfCourse(best_bits, c))

\* C15 witness: the decoded winner selects two sections of one course and
\* one of another; the dictionary holds the later section of the first.
C15_Witness ==
    /\ pc = "interpreted"
    /\ Cardinality(DOMAIN selection) = 2
    /\ \E i, j \in 1..Len(Secs) :
          /\ i < j
          /\ best_bits[i] = 1 /\ best_bits[j] = 1
          /\ CourseOfPosition(i) = CourseOfPosition(j)
          /\ SectionOfPosition(i) # SectionOfPosition(j)
          /\ selection[CourseOfPosition(j)] = SectionOfPosition(j)

\* C16: a course-to-section schedule is printed only for an assignment that
\* selects exactly one section of every course and no two overlapping
\* sections; a minimum-energy sample that violates this is never reported.
C16_ReportedOnlyIfFeasible ==
    pc = "printed" => Feasible(Val(printed).bits)

SingleCourseNoOverlap ==
    /\ Len(courses) = 1
    /\ \A i, j \in 1..Len(Secs) : i < j => overlaps(Secs[i].sec, Secs[j].sec) = Returned(FALSE)

MinEnergy == CHOOSE e \in {Energy(b) : b \in AllBits} : \A b \in AllBits : e <= Energy(b)

\* C17 as stated: for one course of k >= 1 sections none of which overlaps,
\* every minimising assignment selects exactly one of the k variables, and
\* every assignment selecting another number of them (zero, two, three, ...)
\* has energy higher than the minimum by course_penalty.
C17_OtherCountsCostCoursePenalty ==
    (pc = "built" /\ SingleCourseNoOverlap) =>
        \A b \in AllBits :
            /\ IsMinimum(b) => SelectedCount(b, 1) = 1
            /\ SelectedCount(b, 1) # 1 => Energy(b) = MinEnergy + course_penalty

\* C17 amended: every minimising assignment selects exactly one variable,
\* and an assignment selecting m # 1 of them has energy higher than the
\* minimum by course_penalty * (m - 1)^2, which is course_penalty for zero
\* or two and at least course_penalty always.
C17_OtherCountsCostSquaredExcess ==
    (pc = "built" /\ SingleCourseNoOverlap) =>
        \A b \in AllBits :
            /\ IsMinimum(b) <=> SelectedCount(b, 1) = 1
            /\ SelectedCount(b, 1) # 1 =>
                  /\ Energy(b) = MinEnergy + course_penalty
                                     * (SelectedCount(b, 1) - 1) * (SelectedCount(b, 1) - 1)
                  /\ Energy(b) >= MinEnergy + course_penalty
                  /\ Energy(b) > MinEnergy
            /\ SelectedCount(b, 1) \in {0, 2} => Energy(b) = MinEnergy + course_penalty

\* C17 witness: one course of three mutually non-overlapping sections; the
\* assignment selecting all three lies 4 * course_penalty above the minimum.
C17_Witness ==
    /\ pc = "built"
    /\ SingleCourseNoOverlap
    /\ Len(Secs) = 3
    /\ \E b \in AllBits :
          /\ SelectedCount(b, 1) = 3
          /\ Energy(b) = MinEnergy + 4 * course_penalty

\* course A with sections A1 and A2, course B with section B1, all Mon 9:00-10:00
Scenario18 ==
    <<[course |-> <<65>>, sections |-> <<SecA1, SecA2>>],
      [course |-> <<66>>, sections |-> <<SecB1>>]>>

\* C18: for course A with A1 and A2 and course B with B1, all Mon
\* 9:00-10:00, built with course_penalty = 5 and conflict_penalty = 5, the
\* minimum of evaluate_qubo over the 8 bit assignments is exactly 5.
C18_UnavoidableConflictMinimum ==
    (pc = "built" /\ courses = Scenario18 /\ course_penalty = 5 /\ conflict_penalty = 5) =>
        /\ Cardinality(AllBits) = 8
        /\ \E b \in AllBits : Energy(b) = 5
        /\ \A b \in AllBits : Energy(b) >= 5

\* C18 witness: the scenario is built, and selecting A1 and B1 costs the one
\* conflict penalty.
C18_Witness ==
    /\ pc = "built"
    /\ courses = Scenario18
    /\ course_penalty = 5 /\ conflict_penalty = 5
    /\ Energy(<<1, 0, 1>>) = 5
    /\ OverlapPairs(<<1, 0, 1>>) # {}

(***************************************************************************)
(* Properties of the integer-program path (SpecIlp).                       *)
(***************************************************************************)
\* C9: no variable x[meeting, start slot, room] is created for a room whose
\* capacity is below the meeting's enrollment, so every variable a solution
\* can set to 1 places a meeting in a room that holds it.
C9_CapacityPreFilter ==
    ilp_pc \in {"vars", "c1"} =>
        /\ \A i \in 1..Len(model_vars) :
              room_capacity[model_vars[i][3]] >= meeting_enrollment[model_vars[i][1]]
        /\ \A key \in x : room_capacity[key[3]] >= meeting_enrollment[key[1]]

\* C9 witness: after generation one meeting has variables in a room that
\* holds it and none in a room that does not.
C9_Witness ==
    /\ ilp_pc = "vars"
    /\ \E m \in Range(meetings) : \E r1, r2 \in Range(rooms) :
          /\ room_capacity[r1] < meeting_enrollment[m]
          /\ room_capacity[r2] >= meeting_enrollment[m]
          /\ \E key \in x : key[1] = m /\ key[3] = r2
          /\ ~\E key \in x : key[1] = m /\ key[3] = r1

GeneratedFor(m) == {i \in 1..Len(model_vars) : model_vars[i][1] = m}

\* C10: for every meeting with at least one generated variable there is
\* exactly one C1 constraint; it is an equality with right-hand side 1 whose
\* left-hand side sums every variable generated for the meeting once, and no
\* variable of another meeting.
C10_ExactlyOnePlacement ==
    ilp_pc = "c1" =>
        \A m \in Range(meetings) :
            GeneratedFor(m) # {} =>
                /\ Cardinality({k \in 1..Len(c1) : c1[k].name = m}) = 1
                /\ \A k \in 1..Len(c1) :
                      c1[k].name = m =>
                          /\ c1[k].sense = "=="
                          /\ c1[k].rhs = 1
                          /\ Len(c1[k].lhs) = Cardinality(GeneratedFor(m))
                          /\ Range(c1[k].lhs) = {model_vars[i] : i \in GeneratedFor(m)}

\* C10 witness: two meetings with constraints, one of them summing variables
\* of two rooms and of several start slots.
C10_Witness ==
    /\ ilp_pc = "c1"
    /\ Len(c1) = 2
    /\ \E k \in 1..Len(c1) : \E a, b \in Range(c1[k].lhs) :
          a[3] # b[3] /\ a[2] # b[2]
    /\ \E k \in 1..Len(c1) : Len(c1[k].lhs) < Len(model_vars)

\* the timeslots of one day, and the one with i slots of its day before it
SlotsOfDay(day) == {t \in Range(timeslots) : t[1] = day}

SlotAt(day, i) ==
    CHOOSE t \in SlotsOfDay(day) : Cardinality({u \in SlotsOfDay(day) : u[2] < t[2]}) = i

Admitted(m, r) == room_capacity[r] >= meeting_enrollment[m]

ScriptDays == Range(DaysOf(variant))

\* C24: for each meeting, each room the capacity pre-filter admits and each
\* day, variables are generated for exactly the start indices i with 0 <= i
\* and i + duration <= number of slots of the day, one variable per triple;
\* so the slots a generated variable occupies all lie in the slot list of
\* one day, and a meeting longer than the day has no variable on that day.
C24_ValidStartIndices ==
    ilp_pc \in {"vars", "c1"} =>
        /\ \A m \in Range(meetings), r \in Range(rooms), day \in ScriptDays :
              Admitted(m, r) =>
                  /\ \A i \in 0..(Cardinality(SlotsOfDay(day)) - 1) :
                        (i + meeting_duration[m] <= Cardinality(SlotsOfDay(day)))
                            <=> <<m, SlotAt(day, i), r>> \in x
                  /\ meeting_duration[m] > Cardinality(SlotsOfDay(day)) =>
                        ~\E key \in x : key[1] = m /\ key[3] = r /\ key[2][1] = day
        /\ \A key \in x :
              /\ key[1] \in Range(meetings) /\ key[3] \in Range(rooms)
              /\ key[2] \in Range(timeslots) /\ key[2][1] \in ScriptDays
              /\ Admitted(key[1], key[3])
              /\ \A j \in 0..(meeting_duration[key[1]] - 1) :
                    <<key[2][1], key[2][2] + j>> \in SlotsOfDay(key[2][1])
        /\ x = Range(model_vars)
        /\ \A i, j \in 1..Len(model_vars) : i # j => model_vars[i] # model_vars[j]

\* C24 witness: a two-slot meeting has a variable for every start of a day
\* but the last, and a meeting longer than the day has no variable in a
\* room that holds it.
C24_Witness ==
    /\ ilp_pc = "vars"
    /\ \E m \in Range(meetings), r \in Range(rooms) :
          /\ Admitted(m, r)
          /\ meeting_duration[m] = 2
          /\ Cardinality({key \in x : key[1] = m /\ key[3] = r /\ key[2][1] = "Mon"})
                 = Cardinality(SlotsOfDay("Mon")) - 1
          /\ Cardinality(SlotsOfDay("Mon")) >= 2
    /\ \E m \in Range(meetings), r \in Range(rooms) :
          /\ Admitted(m, r)
          /\ meeting_duration[m] > Cardinality(SlotsOfDay("Mon"))
          /\ ~\E key \in x : key[1] = m

(***************************************************************************)
(* Properties of the full integer-program run (SpecSolve).                 *)
(***************************************************************************)
\* the meetings that appear in a printed schedule
ScheduledIn(report) == {e.meeting : e \in report.schedule}

\* C11: a meeting for which no variable was generated (no room holds it, or
\* it is longer than every day) is reported by a warning of its own and not
\* silently omitted: the other meetings still get their constraints, and
\* every meeting missing from a printed schedule was warned about before.
C11_UnplaceableMeetingsReported ==
    /\ ilp_pc \notin {"idle", "start", "vars"} =>
          /\ \A m \in Range(meetings) :
                /\ GeneratedFor(m) = {} <=> m \in Range(warnings)
                /\ GeneratedFor(m) # {} => \E k \in 1..Len(c1) : c1[k].name = m
          /\ \A i, j \in 1..Len(warnings) : i # j => warnings[i] # warnings[j]
    /\ \A n \in 1..Len(reports) :
          reports[n].text = "Schedule Generated" =>
              \A m \in Range(meetings) :
                  m \notin ScheduledIn(reports[n]) => m \in Range(warnings)

\* C11 witness: the first of two meetings fits no room and was warned
\* about, the second has variables, and the printed schedule holds only the
\* second.
C11_Witness ==
    /\ ilp_pc = "returned"
    /\ Len(meetings) = 2
    /\ \A r \in Range(rooms) : room_capacity[r] < meeting_enrollment[meetings[1]]
    /\ warnings = <<meetings[1]>>
    /\ Len(reports) > 0
    /\ ScheduledIn(reports[Len(reports)]) = {meetings[2]}

\* a selected variable occupies timeslot t, in room r
CoversTime(key, t) ==
    /\ key[2][1] = t[1]
    /\ key[2][2] <= t[2]
    /\ t[2] < key[2][2] + meeting_duration[key[1]]

Covers(key, r, t) == key[3] = r /\ CoversTime(key, t)

Instructors == UNION {Range(meeting_instructors[m]) : m \in Range(meetings)}

\* exactly one placement per meeting with a variable, no room cell and no
\* instructor covered twice
IsSchedule(a) ==
    /\ \A m \in Range(meetings) :
          (\E key \in x : key[1] = m) => Cardinality({key \in a : key[1] = m}) = 1
    /\ \A r \in Range(rooms), t \in Range(timeslots) :
          Cardinality({key \in a : Covers(key, r, t)}) <= 1
    /\ \A n \in Instructors, t \in Range(timeslots) :
          Cardinality({key \in a : n \in Range(meeting_instructors[key[1]])
                                   /\ CoversTime(key, t)}) <= 1

\* C12: every 0/1 assignment of the generated variables that satisfies the
\* C1, C2 and C4 constraints selects exactly one variable of every meeting
\* that has one, covers no (room, timeslot) cell twice and gives no
\* instructor two meetings at one timeslot.  Every subset of a small
\* variable set is tried; for larger ones the assignments the solver can
\* return.
C12_ConstraintsImplySchedule ==
    ilp_pc = "c4" =>
        /\ \A a \in FeasibleAssignments : IsSchedule(a)
        /\ Cardinality(x) <= MaxEnumeratedVars =>
              \A a \in SUBSET x :
                  (\A k \in 1..Len(c1 \o c2 \o c4) : Satisfies(a, (c1 \o c2 \o c4)[k]))
                      => a \in FeasibleAssignments /\ IsSchedule(a)

\* C12 witness: two meetings of one instructor, the first two slots long;
\* some feasible assignment puts both in one room on one day, and two
\* variables that cover the same cell of a room are never both selected.
C12_Witness ==
    /\ ilp_pc = "c4"
    /\ Len(meetings) = 2
    /\ meeting_duration[meetings[1]] = 2
    /\ meeting_instructors[meetings[1]] = meeting_instructors[meetings[2]]
    /\ \E a \in FeasibleAssignments : \E k1, k2 \in a :
          k1[1] # k2[1] /\ k1[3] = k2[3] /\ k1[2][1] = k2[2][1]
    /\ \E k1, k2 \in x :
          /\ k1[1] # k2[1]
          /\ k1[2] # k2[2]
          /\ \E t \in Range(timeslots) : Covers(k1, k1[3], t) /\ Covers(k2, k1[3], t)
          /\ {k1, k2} \notin FeasibleAssignments

\* the position of a timeslot within the slots of its day
DayIndex(t) == Cardinality({u \in SlotsOfDay(t[1]) : u[2] < t[2]})

\* the variable starts on the day of t and index(s) <= index(t) < index(s) + duration
CoversSlot(key, t) ==
    /\ key[2][1] = t[1]
    /\ DayIndex(key[2]) <= DayIndex(t)
    /\ DayIndex(t) < DayIndex(key[2]) + meeting_duration[key[1]]

CellCover(r, t) == {key \in x : key[3] = r /\ CoversSlot(key, t)}

C2Rows(r, t) == {k \in 1..Len(c2) : c2[k].name = <<r, t>>}

\* C25: for every room r and timeslot t the room-exclusivity constraint
\* sums exactly the generated variables x[m, s, r] with s on the day of t
\* and index(s) <= index(t) < index(s) + duration(m), each once and no
\* other, and bounds the sum by 1, each meeting looked back by its own
\* duration; a cell no variable covers has no constraint.
C25_RoomConstraintContents ==
    ilp_pc \in {"c2", "c4", "objective", "solved", "again", "returned"} =>
        /\ \A r \in Range(rooms), t \in Range(timeslots) :
              /\ CellCover(r, t) = {} => C2Rows(r, t) = {}
              /\ CellCover(r, t) # {} => Cardinality(C2Rows(r, t)) = 1
              /\ \A k \in C2Rows(r, t) :
                    /\ Range(c2[k].lhs) = CellCover(r, t)
                    /\ Len(c2[k].lhs) = Cardinality(CellCover(r, t))
                    /\ c2[k].sense = "<="
                    /\ c2[k].rhs = 1
        /\ \A k \in 1..Len(c2) :
              c2[k].name[1] \in Range(rooms) /\ c2[k].name[2] \in Range(timeslots)

\* C25 witness: a constraint of a cell sums a two-slot meeting started one
\* slot earlier and a one-slot meeting started at the cell, and not the
\* one-slot meeting's variable of the slot before.
C25_Witness ==
    /\ ilp_pc = "c2"
    /\ \E k \in 1..Len(c2) : \E a, b \in Range(c2[k].lhs) :
          /\ meeting_duration[a[1]] = 2
          /\ meeting_duration[b[1]] = 1
          /\ a[2] # c2[k].name[2]
          /\ b[2] = c2[k].name[2]
          /\ <<b[1], a[2], b[3]>> \in x
          /\ <<b[1], a[2], b[3]>> \notin Range(c2[k].lhs)

Teaches(n, m) == n \in Range(meeting_instructors[m])

\* the variables, of any room, of the meetings of instructor n that cover t
InstructorCover(n, t) == {key \in x : Teaches(n, key[1]) /\ CoversSlot(key, t)}

C4Rows(n, t) == {k \in 1..Len(c4) : c4[k].name = <<n, t>>}

\* C26: for every instructor who teaches at least one meeting and every
\* timeslot t, the instructor-exclusivity constraint sums, over all rooms,
\* exactly the variables of the meetings that list the instructor and cover
\* t, each once, and no variable of a meeting the instructor does not
\* teach; a meeting with several instructors is in the constraint of each.
C26_InstructorConstraintContents ==
    ilp_pc \in {"c4", "objective", "solved", "again", "returned"} =>
        \A n \in Instructors, t \in Range(timeslots) :
            /\ Cardinality(C4Rows(n, t)) = 1
            /\ \A k \in C4Rows(n, t) :
                  /\ Range(c4[k].lhs) = InstructorCover(n, t)
                  /\ Len(c4[k].lhs) = Cardinality(InstructorCover(n, t))
                  /\ \A key \in Range(c4[k].lhs) : Teaches(n, key[1])
                  /\ c4[k].sense = "<="
                  /\ c4[k].rhs = 1
                  /\ \A m \in Range(meetings), key \in x :
                        (key[1] = m /\ Teaches(n, m) /\ CoversSlot(key, t))
                            => key \in Range(c4[k].lhs)

\* C26 witness: a meeting taught by two instructors has a variable, in the
\* second room, in the constraint of each of them at one timeslot; a
\* meeting of the second instructor alone is in the second one's constraint
\* and not in the first one's.
C26_Witness ==
    /\ ilp_pc = "c4"
    /\ Len(meetings) = 2 /\ Len(rooms) = 2
    /\ meeting_instructors[meetings[1]] = <<"X", "Y">>
    /\ meeting_instructors[meetings[2]] = <<"Y">>
    /\ \E t \in Range(timeslots) : \E kx \in C4Rows("X", t), ky \in C4Rows("Y", t) :
          /\ \E key \in Range(c4[kx].lhs) :
                key[1] = meetings[1] /\ key[3] = rooms[2] /\ key \in Range(c4[ky].lhs)
          /\ \E key \in Range(c4[ky].lhs) :
                key[1] = meetings[2] /\ key \notin Range(c4[kx].lhs)

\* the rooms that come before r when the rooms are put in ascending order
\* of capacity, rooms of equal capacity in list order
RoomsBefore(r) ==
    {q \in Range(rooms) :
        \/ room_capacity[q] < room_capacity[r]
        \/ room_capacity[q] = room_capacity[r] /\ IndexOf(rooms, q) < IndexOf(rooms, r)}

\* the lower half is the first floor(n / 2) rooms of that order, the upper
\* half the others
InUpperHalf(r) == 2 * (Cardinality(RoomsBefore(r)) + 1) > Len(rooms)

\* C27: in resource-minimization mode (the mini script) the objective
\* coefficient of every variable of a meeting and a room is room_capacity -
\* enrollment, plus 1000 exactly when the room is in the upper half of the
\* rooms sorted by ascending capacity, so no coefficient is negative; in
\* pure-feasibility mode (the classical script) every coefficient is zero.
C27_ObjectiveCoefficients ==
    ilp_pc \in {"objective", "solved", "again", "returned"} =>
        /\ DOMAIN objective = x
        /\ variant = "mini" =>
              \A key \in x :
                  /\ objective[key] =
                         (room_capacity[key[3]] - meeting_enrollment[key[1]])
                             + (IF InUpperHalf(key[3]) THEN 1000 ELSE 0)
                  /\ objective[key] >= 0
        /\ variant = "classical" => \A key \in x : objective[key] = 0

\* C27 witness: the mini script with two rooms of equal capacity; a meeting
\* has the coefficient of its wasted seats in the first and 1000 more in
\* the second.
C27_Witness ==
    /\ ilp_pc = "objective"
    /\ variant = "mini"
    /\ Len(rooms) = 2
    /\ \E k1, k2 \in x :
          /\ k1[1] = k2[1] /\ k1[3] = rooms[1] /\ k2[3] = rooms[2]
          /\ objective[k1] = room_capacity[rooms[1]] - meeting_enrollment[k1[1]]
          /\ objective[k1] > 0
          /\ objective[k2] = objective[k1] + 1000

\* the entries of a printed schedule that a variable accounts for
EntriesOf(report, key) ==
    {e \in report.schedule :
        /\ e.meeting = key[1] /\ e.room = key[3]
        /\ e.slot[1] = key[2][1]
        /\ e.slot[2] \in key[2][2]..(key[2][2] + meeting_duration[key[1]] - 1)}

\* the timeslots whose room-exclusivity constraint sums the variable
C2CoveredSlots(key) ==
    {t \in Range(timeslots) :
        \E k \in 1..Len(c2) : c2[k].name = <<key[3], t>> /\ key \in Range(c2[k].lhs)}

\* C28: for every variable (m, s, r) with solver value above 0.5 the
\* printed schedule holds exactly duration(m) entries, one for each slot of
\* the day of s from s to s + duration(m) - 1, the one at s tagged as start
\* and the later ones as continuation; on the hourly grid the recorded
\* slots are those the room-exclusivity constraints treat as covered by the
\* variable; a variable with value at most 0.5 gives no entry.
C28_ScheduleEntries ==
    \A n \in 1..Len(reports) :
        /\ reports[n].text = "Schedule Generated" =>
              /\ \A key \in sol :
                    LET es == EntriesOf(reports[n], key)
                    IN  /\ Cardinality(es) = meeting_duration[key[1]]
                        /\ {e.slot : e \in es} =
                               {<<key[2][1], key[2][2] + j>> : j \in 0..(meeting_duration[key[1]] - 1)}
                        /\ \A e \in es : e.note = IF e.slot = key[2] THEN "(Start)" ELSE "(Cont.)"
                        /\ {e.slot : e \in es} = C2CoveredSlots(key)
                        /\ {e.slot : e \in es} = {t \in Range(timeslots) : CoversSlot(key, t)}
              /\ reports[n].schedule = UNION {EntriesOf(reports[n], key) : key \in sol}
              /\ \A key \in x \ sol :
                    (\A other \in sol : other[1] # key[1]) => EntriesOf(reports[n], key) = {}
        /\ reports[n].text # "Schedule Generated" => reports[n].schedule = {}

\* C28 witness: a printed schedule of a solution that places a two-slot
\* meeting, with its start and its continuation entry, while other
\* variables of the meeting stay unselected.
C28_Witness ==
    /\ ilp_pc = "returned"
    /\ Len(reports) > 0
    /\ \E key \in sol :
          /\ meeting_duration[key[1]] = 2
          /\ \E e1, e2 \in reports[Len(reports)].schedule :
                /\ e1.meeting = key[1] /\ e2.meeting = key[1]
                /\ e1.note = "(Start)" /\ e1.slot = key[2]
                /\ e2.note = "(Cont.)" /\ e2.slot = <<key[2][1], key[2][2] + 1>>
          /\ \E other \in x \ sol : other[1] = key[1]

\* C19: a failure of the solver during build_and_run_model reaches the
\* caller: build_and_run_model does not return normally after catching it.
C19_BackendErrorPropagates ==
    ilp_pc = "returned" => caught = "none"

\* C20: in one run of build_and_run_model the solver is invoked at most
\* once.
C20_SingleSolve ==
    optimize_calls <= 1

(***************************************************************************)
(* Properties of calculate_duration_slots (SpecDuration).                  *)
(***************************************************************************)
\* a cell written by the formatter, and the minute of the day it denotes
Formatted(cell) == \E c \in ClockTimes : cell = Some(Fmt12(c[1], c[2]))

CellMinute(cell) ==
    LET c == CHOOSE c \in ClockTimes : cell = Some(Fmt12(c[1], c[2]))
    IN  c[1] * 60 + c[2]

SpanMinutes == CellMinute(end_str) - CellMinute(begin_str)

\* C13: calculate_duration_slots returns ceil(minutes / 60) for every
\* begin/end pair whose span is at least one minute (1 slot for 1 to 60
\* minutes, 2 for 61 to 120, and so on: the least n with 60 n >= minutes),
\* and never less than 1; a zero or negative span yields 1.
C13_DurationRounding ==
    dur_pc = "called" =>
        /\ dur_result >= 1
        /\ (Formatted(begin_str) /\ Formatted(end_str)) =>
              /\ SpanMinutes >= 1 =>
                    /\ 60 * dur_result >= SpanMinutes
                    /\ 60 * (dur_result - 1) < SpanMinutes
              /\ SpanMinutes \in 1..60 => dur_result = 1
              /\ SpanMinutes \in 61..120 => dur_result = 2
              /\ SpanMinutes <= 0 => dur_result = 1

\* C13 witness: a span of 61 minutes that needs 2 slots.
C13_Witness ==
    /\ dur_pc = "called"
    /\ Formatted(begin_str) /\ Formatted(end_str)
    /\ SpanMinutes = 61
    /\ dur_result = 2

\* a cell that holds a value which is not a time of the CSV layout
PresentUnparseable(cell) == ~IsNone(cell) /\ ~Formatted(cell)

\* C21: when the begin or end time of a meeting is present but cannot be
\* parsed, calculate_duration_slots surfaces an error and yields no duration
\* value: it never continues with a substituted default.
C21_UnparseableTimeIsAnError ==
    (dur_pc # "ready" /\ (PresentUnparseable(begin_str) \/ PresentUnparseable(end_str))) =>
        dur_pc = "raised"

(***************************************************************************)
(* Properties of qubo_to_ising_sparse (SpecSparse).                        *)
(***************************************************************************)
SparseBits == [DOMAIN sparse_h -> {0, 1}]

\* the QUBO energy of the rows: sum of value * x_i * x_j
RECURSIVE SparseQuboEnergy(_, _)
SparseQuboEnergy(rows, b) ==
    IF rows = <<>> THEN 0
    ELSE Head(rows)[3] * b[Head(rows)[1]] * b[Head(rows)[2]] + SparseQuboEnergy(Tail(rows), b)

\* SparseScale times sum_i h[i] z_i + sum_{i<j} J[i, j] z_i z_j at z = 1 - 2x
SparseIsingEnergy(b) ==
    SumFn([i \in DOMAIN sparse_h |-> sparse_h[i] * (1 - 2 * b[i])])
    + SumFn([p \in {q \in DOMAIN sparse_J : q[1] < q[2]} |->
                sparse_J[p] * (1 - 2 * b[p[1]]) * (1 - 2 * b[p[2]])])

\* C29: the (h, J) that qubo_to_ising_sparse returns is an Ising model of
\* the same energy landscape: over all bit assignments x the Ising energy
\* at z = 1 - 2x differs from the QUBO energy of the rows by one constant.
C29_SparseIsingSameLandscape ==
    sp_pc = "converted" =>
        \A b1, b2 \in SparseBits :
            SparseIsingEnergy(b1) - SparseScale * SparseQuboEnergy(df, b1)
                = SparseIsingEnergy(b2) - SparseScale * SparseQuboEnergy(df, b2)

=============================================================================
